---- MODULE Spec2Model ----
(***************************************************************************)
(* Model of SwiftGrasp's StructuralChange analyser                         *)
(* (src/src/SwiftGrasp/utils.py, class StructuralChange).                  *)
(*                                                                         *)
(* Date strings are sequences of character codes, so that str comparison   *)
(* (lexicographic, by code point), datetime.strptime and strftime are      *)
(* modelled by what they do.  Calendar dates are records [y, m, d].        *)
(***************************************************************************)
EXTENDS Integers, Sequences, FiniteSets, TLC

(***************************************************************************)
(* Bounds                                                                  *)
(***************************************************************************)
\* longest candidate list handed to the constructor
MaxLen == 2

(***************************************************************************)
(* Characters and strings                                                  *)
(***************************************************************************)
\* ord('0'), ord('-'), ord('/'), ord(' ')
Zero == 48
Dash == 45
Slash == 47
Space == 32

IsDigit(c) == c \in Zero..(Zero + 9)

DigitVal(c) == c - Zero

\* n as exactly two decimal digits (strftime %m, %d)
D2(n) == <<Zero + ((n \div 10) % 10), Zero + (n % 10)>>

\* n as exactly four decimal digits
D4(n) ==
    <<Zero + ((n \div 1000) % 10), Zero + ((n \div 100) % 10)>> \o D2(n % 100)

\* n >= 1 in decimal without padding
RECURSIVE Dec(_)
Dec(n) == IF n < 10 THEN <<Zero + n>> ELSE Dec(n \div 10) \o <<Zero + (n % 10)>>

\* Python's str < str: lexicographic on code points, a proper prefix is less
RECURSIVE StrLessFrom(_, _, _)
StrLessFrom(a, b, i) ==
    IF i > Len(b) THEN FALSE
    ELSE IF i > Len(a) THEN TRUE
    ELSE IF a[i] # b[i] THEN a[i] < b[i]
    ELSE StrLessFrom(a, b, i + 1)

StrLess(a, b) == StrLessFrom(a, b, 1)

(***************************************************************************)
(* Calendar (datetime.date)                                                *)
(***************************************************************************)
Date(y, m, d) == [y |-> y, m |-> m, d |-> d]

NoDate == Date(0, 0, 0)

IsLeap(y) == y % 4 = 0 /\ (y % 100 # 0 \/ y % 400 = 0)

DaysInMonth(y, m) ==
    IF m = 2 THEN (IF IsLeap(y) THEN 29 ELSE 28)
    ELSE IF m \in {4, 6, 9, 11} THEN 30 ELSE 31

\* datetime.date.toordinal: 0001-01-01 is day 1
RECURSIVE DaysBeforeMonth(_, _)
DaysBeforeMonth(y, m) ==
    IF m = 1 THEN 0 ELSE DaysBeforeMonth(y, m - 1) + DaysInMonth(y, m - 1)

DaysBeforeYear(y) ==
    LET p == y - 1
    IN (p * 365) + (p \div 4) - (p \div 100) + (p \div 400)

Ordinal(dt) == DaysBeforeYear(dt.y) + DaysBeforeMonth(dt.y, dt.m) + dt.d

(***************************************************************************)
(* datetime.strptime(s, "%Y-%m-%d")                                        *)
(*   %Y (?P<Y>\d\d\d\d)                                                    *)
(*   %m (?P<m>1[0-2]|0[1-9]|[1-9])                                         *)
(*   %d (?P<d>3[0-1]|[1-2]\d|0[1-9]|[1-9]| [1-9])                          *)
(* followed by the range checks of the datetime constructor.               *)
(***************************************************************************)
MonthField(f) ==
    \/ Len(f) = 2 /\ f[1] = Zero + 1 /\ f[2] \in Zero..(Zero + 2)
    \/ Len(f) = 2 /\ f[1] = Zero /\ f[2] \in (Zero + 1)..(Zero + 9)
    \/ Len(f) = 1 /\ f[1] \in (Zero + 1)..(Zero + 9)

DayField(f) ==
    \/ Len(f) = 2 /\ f[1] = Zero + 3 /\ f[2] \in Zero..(Zero + 1)
    \/ Len(f) = 2 /\ f[1] \in (Zero + 1)..(Zero + 2) /\ IsDigit(f[2])
    \/ Len(f) = 2 /\ f[1] = Zero /\ f[2] \in (Zero + 1)..(Zero + 9)
    \/ Len(f) = 1 /\ f[1] \in (Zero + 1)..(Zero + 9)
    \/ Len(f) = 2 /\ f[1] = Space /\ f[2] \in (Zero + 1)..(Zero + 9)

FieldVal(f) ==
    IF Len(f) = 1 THEN DigitVal(f[1])
    ELSE IF f[1] = Space THEN DigitVal(f[2])
    ELSE (10 * DigitVal(f[1])) + DigitVal(f[2])

\* the ways s splits as YYYY-m-d: <<month length, day length>>
Splits(s) ==
    {p \in {1, 2} \X {1, 2} :
        /\ Len(s) = 6 + p[1] + p[2]
        /\ \A i \in 1..4 : IsDigit(s[i])
        /\ s[5] = Dash
        /\ s[6 + p[1]] = Dash
        /\ MonthField(SubSeq(s, 6, 5 + p[1]))
        /\ DayField(SubSeq(s, 7 + p[1], Len(s)))}

Strptime(s) ==
    IF Splits(s) = {} THEN [raised |-> "ValueError", date |-> NoDate]
    ELSE LET p == CHOOSE q \in Splits(s) : TRUE
             y == (1000 * DigitVal(s[1])) + (100 * DigitVal(s[2]))
                    + (10 * DigitVal(s[3])) + DigitVal(s[4])
             m == FieldVal(SubSeq(s, 6, 5 + p[1]))
             d == FieldVal(SubSeq(s, 7 + p[1], Len(s)))
         IN IF y < 1 \/ d > DaysInMonth(y, m)
            THEN [raised |-> "ValueError", date |-> NoDate]
            ELSE [raised |-> "None", date |-> Date(y, m, d)]

(***************************************************************************)
(* date - datetime.timedelta(days=1)                                       *)
(***************************************************************************)
MinusOneDay(dt) ==
    IF dt.d > 1 THEN [raised |-> "None", date |-> Date(dt.y, dt.m, dt.d - 1)]
    ELSE IF dt.m > 1
    THEN [raised |-> "None",
          date |-> Date(dt.y, dt.m - 1, DaysInMonth(dt.y, dt.m - 1))]
    ELSE IF dt.y > 1 THEN [raised |-> "None", date |-> Date(dt.y - 1, 12, 31)]
    ELSE [raised |-> "OverflowError", date |-> NoDate]

(***************************************************************************)
(* strftime("%Y-%m-%d").  %m and %d are zero-padded; %Y is handed to the   *)
(* C library, which pads years below 1000 to four digits on some builds    *)
(* and not on others (pad).                                                *)
(***************************************************************************)
Strftime(dt, pad) ==
    (IF pad \/ dt.y >= 1000 THEN D4(dt.y) ELSE Dec(dt.y))
        \o <<Dash>> \o D2(dt.m) \o <<Dash>> \o D2(dt.d)

(***************************************************************************)
(* Inputs                                                                  *)
(***************************************************************************)
\* "YYYY-MM-DD" of a calendar triple, zero-padded throughout
S(y, m, d) == Strftime(Date(y, m, d), TRUE)

\* "2020-1-15" and "2020-6-15": month written without its leading zero
Unpadded(y, m, d) == D4(y) \o <<Dash>> \o Dec(m) \o <<Dash>> \o D2(d)

\* "2020/06/15"
Slashed(y, m, d) == D4(y) \o <<Slash>> \o D2(m) \o <<Slash>> \o D2(d)

\* the daily, gap-free price series, given by the ends of its index
Series(lo, hi) == [lo |-> lo, hi |-> hi]

SeriesChoices ==
    { Series(Date(2020, 1, 1), Date(2020, 12, 31)),
      Series(Date(2019, 12, 30), Date(2020, 1, 3)) }

Candidates ==
    { S(2020, 1, 1), S(2020, 1, 2), S(2020, 1, 3), S(2020, 6, 15),
      S(2020, 12, 31), S(2021, 1, 1),
      Unpadded(2020, 1, 15), Unpadded(2020, 6, 15),
      Slashed(2020, 6, 15), S(2020, 2, 30),
      S(1, 1, 1), S(999, 6, 15) }

\* the dates the caller asks plot() for: candidates in and outside the
\* series, and one that is no candidate
PlotDates ==
    { S(2020, 6, 15), S(2020, 1, 2), Unpadded(2020, 6, 15),
      S(2022, 1, 1) }

CandidateLists == UNION {[1..n -> Candidates] : n \in 0..MaxLen}

(***************************************************************************)
(* State                                                                   *)
(***************************************************************************)
VARIABLES
    _df,                 \* self._df: the borrowed price series
    possible_date_list,  \* self.possible_date_list
    _df_index_min,       \* self._df_index_min (str)
    _df_index_max,       \* self._df_index_max (str)
    _df_summary,         \* self._df_summary: None or the table's rows
    _ci_dict,            \* self._ci_dict: date str -> impact object
    pad_year,            \* whether this build's strftime pads %Y
    op,                  \* the last call made on the analyser
    arg,                 \* its argument (plot's dt)
    raised,              \* the exception it raised, "None" if it returned
    ret,                 \* the value it returned
    warned,              \* whether it issued warnings.warn
    ci_calls,            \* the CausalImpact(...) invocations it made
    trace,               \* analyze: one entry per _analyze_one_date call
    analyze_called,      \* analyze() has been entered at least once
    analyze_done,        \* analyze() has returned normally at least once
    summary_before,      \* self._df_summary when the last call was entered
    ci_dict_before,      \* self._ci_dict when the last call was entered
    df_arg,              \* the object handed to the constructor as df
    df_init,             \* the series as it was at construction
    constructed          \* the constructor returned an analyser

\* the state of the analyser (StructuralChange) and of its caller
sc_vars ==
    <<_df, possible_date_list, _df_index_min, _df_index_max, _df_summary,
      _ci_dict, pad_year, op, arg, raised, ret, warned, ci_calls, trace,
      analyze_called, analyze_done, summary_before, ci_dict_before,
      df_arg, df_init, constructed>>

VARIABLES
    today,               \* datetime.datetime.today(), as a date
    source,              \* what the data source holds for the ticker
    ct,                  \* the CheckTicker object
    ct_before,           \* ct when the last call on it was entered
    fsd,                 \* the FinancialStatementData object
    sd,                  \* the StockData object
    queries,             \* the requests the last call sent to the source
    dop,                 \* the last call made on the data classes
    darg,                \* its arguments
    draised,             \* the exception it raised, "None" if it returned
    dret                 \* the value it returned

\* the state of CheckTicker, FinancialStatementData and StockData
data_vars ==
    <<today, source, ct, ct_before, fsd, sd, queries, dop, darg, draised,
      dret>>

VARIABLES
    fm,                  \* the FuzzyMatch object
    fm_arg,              \* the arguments of its constructor
    fm_raised,           \* the exception the last call on it raised
    fm_message,          \* the message of that exception
    fm_op,               \* the last call: "init" or "match"
    fm_call,             \* match: num_result, the scores, the extraction
    fm_ret               \* the table match returned

\* the state of FuzzyMatch
fm_vars == <<fm, fm_arg, fm_raised, fm_message, fm_op, fm_call, fm_ret>>

VARIABLES
    cached,              \* the files of ./cached: path -> content
    cached_before,       \* cached when the last call was entered
    cop,                 \* the last call: get_fsd, cach_struc_chg, dashboard
    carg,                \* its arguments
    craised,             \* the exception it raised, "None" if it returned
    cret,                \* the object it returned or loaded
    fetched              \* the FinancialStatementData(...) calls it made

\* the state of the cache folder and of its producer and consumer
cache_vars == <<cached, cached_before, cop, carg, craised, cret, fetched>>

VARIABLES
    m_pulled,            \* the three statements as _pull_data left them
    m_self,              \* self._balance, _income, _cash and _df_merge
    m_op,                \* the last call: "_drop_dup" or "_merge_data"
    m_arg,               \* _drop_dup: df1 and df2 as they were handed over
    m_df1,               \* _drop_dup: df1 after the call
    m_ret                \* _drop_dup: the table it returned

\* the state of FinancialStatementData's merge of the three statements
merge_vars == <<m_pulled, m_self, m_op, m_arg, m_df1, m_ret>>

vars == <<sc_vars, data_vars, fm_vars, cache_vars, merge_vars>>

\* what no method of the analyser and no caller action changes
sc_fixed ==
    <<df_arg, df_init, constructed, data_vars, fm_vars, cache_vars,
      merge_vars>>

\* what the data classes' constructors leave alone, besides their own state
beside_data == <<sc_vars, fm_vars, cache_vars, merge_vars>>

\* what FuzzyMatch leaves alone
beside_fuzzy == <<sc_vars, data_vars, cache_vars, merge_vars>>

(***************************************************************************)
(* Values of CheckTicker, FinancialStatementData, StockData and FuzzyMatch *)
(***************************************************************************)
\* Python's None / a str, as one shape
NoneStr == [none |-> TRUE, value |-> <<>>]

Str(v) == [none |-> FALSE, value |-> v]

\* an argument whose value is a word (ticker, type, frequency)
Obj(type, value) == [type |-> type, value |-> value]

NoneObj == Obj("NoneType", "")

\* an argument whose value is a date string (start_date, end_date)
DateObj(type, value) == [type |-> type, value |-> value]

NoneDate == DateObj("NoneType", <<>>)

Args(ticker, type, frequency, start_date, end_date) ==
    [ticker |-> ticker, type |-> type, frequency |-> frequency,
     start_date |-> start_date, end_date |-> end_date]

NoArgs == Args(NoneObj, NoneObj, NoneObj, NoneDate, NoneDate)

\* a returned value: None, a word, a date string or an exception instance
Ret(kind, word, date) == [kind |-> kind, word |-> word, date |-> date]

RetNone == Ret("None", "", <<>>)

\* the answer of get_historical_price_data for the ticker
Prices(keys, events, first) ==
    [none |-> FALSE, keys |-> keys, eventsData |-> events,
     firstTradeDate |-> first]

NoPrices == [none |-> TRUE, keys |-> {}, eventsData |-> 0,
             firstTradeDate |-> <<>>]

\* the attributes CheckTicker.__init__ sets before it calls _validate
NewCheckTicker(ticker) ==
    [exists |-> FALSE, ticker |-> ticker, has_statement |-> FALSE,
     has_stock |-> FALSE, _today_prices |-> NoPrices,
     first_trade_date |-> NoneStr]

NoFSD == [exists |-> FALSE, ticker |-> "", frequency |-> RetNone]

NoSD ==
    [exists |-> FALSE, ticker |-> "", first_trade_date |-> NoneStr,
     frequency |-> "", start_date |-> <<>>, end_date |-> <<>>]

NoSource == [has_statement |-> FALSE, has_stock |-> FALSE,
             first_trade |-> <<>>]

\* nothing of the data classes exists
DataIdle ==
    /\ today = NoDate
    /\ source = NoSource
    /\ ct = NewCheckTicker("")
    /\ ct_before = NewCheckTicker("")
    /\ fsd = NoFSD
    /\ sd = NoSD
    /\ queries = <<>>
    /\ dop = "idle"
    /\ darg = NoArgs
    /\ draised = "None"
    /\ dret = RetNone

\* a DataFrame: its column labels and its rows, each row a function of
\* the labels
Frame(columns, rows) == [type |-> "DataFrame", columns |-> columns,
                         rows |-> rows]

NoFrame == [type |-> "NoneType", columns |-> {}, rows |-> <<>>]

NoFM == [exists |-> FALSE, df_company |-> NoFrame, match_by_col |-> "",
         list_choices |-> <<>>]

\* the table match() returns: its column labels in order, and its rows
Result(columns, rows) == [columns |-> columns, rows |-> rows]

NoResult == Result(<<>>, <<>>)

\* the arguments of match(): num_result, and for input_text the score the
\* extractor gives each choice; res is what the extractor returned
MatchCall(num_result, score, res) ==
    [num_result |-> num_result, score |-> score, res |-> res]

NoMatchCall == MatchCall(0, [c \in {} |-> 0], <<>>)

\* no FuzzyMatch exists
FuzzyIdle ==
    /\ fm = NoFM
    /\ fm_arg = [df |-> NoFrame, match_by_col |-> NoneObj]
    /\ fm_raised = "None"
    /\ fm_message = <<>>
    /\ fm_op = "idle"
    /\ fm_call = NoMatchCall
    /\ fm_ret = NoResult

\* the content of a file of ./cached: a pickled FinancialStatementData, a
\* pickled summary table, or the picture of one impact object
File(kind, obj) == [kind |-> kind, obj |-> obj]

NoFile == File("None", <<>>)

EmptyFolder == [p \in {} |-> NoFile]

\* the arguments of get_fsd, cach_struc_chg and the dashboard's section 4
CacheArgs(ticker, frequency, delete_if_exists, selected) ==
    [ticker |-> ticker, frequency |-> frequency,
     delete_if_exists |-> delete_if_exists, selected |-> selected]

NoCacheArgs == CacheArgs("", "", FALSE, "")

\* nothing was cached and nothing asked of the cache
CacheIdle ==
    /\ cached = EmptyFolder
    /\ cached_before = EmptyFolder
    /\ cop = "idle"
    /\ carg = NoCacheArgs
    /\ craised = "None"
    /\ cret = NoFile
    /\ fetched = <<>>

\* a statement table, as its columns in order: each column is its label and
\* the statement its values were pulled from
StatementColumn(name, from) == [name |-> name, from |-> from]

\* self._balance, self._income, self._cash, self._df_merge
Statements(balance, income, cash, df_merge) ==
    [_balance |-> balance, _income |-> income, _cash |-> cash,
     _df_merge |-> df_merge]

\* self._df_merge = None
NoMerge == [none |-> TRUE, raised |-> "None", columns |-> <<>>]

NoStatements == Statements(<<>>, <<>>, <<>>, NoMerge)

\* no statement was pulled
MergeIdle ==
    /\ m_pulled = NoStatements
    /\ m_self = NoStatements
    /\ m_op = "idle"
    /\ m_arg = [df1 |-> <<>>, df2 |-> <<>>]
    /\ m_df1 = <<>>
    /\ m_ret = <<>>

\* Python's None / a DataFrame, as one shape
NoneValue == [none |-> TRUE, rows |-> <<>>]

Table(rows) == [none |-> FALSE, rows |-> rows]

\* the object CausalImpact(data, pre_period, post_period) returns: the
\* model is deterministic, so the object is determined by its inputs
CausalImpact(data, pre_period, post_period) ==
    [data |-> data, pre_period |-> pre_period, post_period |-> post_period]

NoCI == CausalImpact(Series(NoDate, NoDate), <<>>, <<>>)

\* res: ci.summary_data.loc[:, "average"].T with p-value and change_date
Row(ci, dt) == [average |-> ci, p_value |-> ci, change_date |-> dt]

EmptyDict == [k \in {} |-> NoCI]

\* d[k] = v
DictSet(d, k, v) == [x \in (DOMAIN d) \cup {k} |-> IF x = k THEN v ELSE d[x]]

NoSeries == Series(NoDate, NoDate)

\* the objects a caller may hand over as df: DataFrames with and without
\* a date index, a pandas Series, a list, None
Arg(type, index, series) == [type |-> type, index |-> index, series |-> series]

ConstructorArgs ==
    {Arg("DataFrame", "DatetimeIndex", s) : s \in SeriesChoices}
    \cup {Arg("DataFrame", "RangeIndex", NoSeries),
          Arg("Series", "DatetimeIndex", NoSeries),
          Arg("list", "None", NoSeries),
          Arg("NoneType", "None", NoSeries)}

\* variant: the isinstance test is dropped
_validate_dtype_df_unchecked(obj) == [raised |-> "None", value |-> obj]

_validate_dtype_df(obj) ==
    IF obj.type # "DataFrame"
    THEN [raised |-> "TypeError", value |-> obj]
    ELSE [raised |-> "None", value |-> obj]

\* obj.index.min().strftime("%Y-%m-%d") / obj.index.max().strftime(...):
\* only the min and max of a date index have strftime
IndexBounds(obj, pad) ==
    IF obj.type \in {"DataFrame", "Series"} /\ obj.index = "DatetimeIndex"
    THEN [raised |-> "None", min |-> Strftime(obj.series.lo, pad),
          max |-> Strftime(obj.series.hi, pad)]
    ELSE [raised |-> "AttributeError", min |-> <<>>, max |-> <<>>]

\* StructuralChange.__init__(df, possible_date_list)
StructuralChange__init__(df, lst, pad) ==
    LET checked == _validate_dtype_df(df)
        bounds == IndexBounds(checked.value, pad)
        exc == IF checked.raised # "None" THEN checked.raised
               ELSE bounds.raised
    IN IF exc # "None"
       THEN [raised |-> exc, df |-> NoSeries, lst |-> <<>>,
             index_min |-> <<>>, index_max |-> <<>>]
       ELSE [raised |-> "None", df |-> df.series, lst |-> lst,
             index_min |-> bounds.min, index_max |-> bounds.max]

Init ==
    \E df \in ConstructorArgs, lst \in CandidateLists, pad \in BOOLEAN :
        LET new == StructuralChange__init__(df, lst, pad)
        IN /\ df_arg = df
           /\ pad_year = pad
           /\ constructed = (new.raised = "None")
           /\ raised = new.raised
           /\ _df = new.df
           /\ df_init = new.df
           /\ possible_date_list = new.lst
           /\ _df_index_min = new.index_min
           /\ _df_index_max = new.index_max
           /\ _df_summary = NoneValue
           /\ _ci_dict = EmptyDict
           /\ op = "init"
           /\ arg = <<>>
           /\ ret = NoneValue
           /\ warned = FALSE
           /\ ci_calls = <<>>
           /\ trace = <<>>
           /\ analyze_called = FALSE
           /\ analyze_done = FALSE
           /\ summary_before = NoneValue
           /\ ci_dict_before = EmptyDict
           /\ DataIdle
           /\ FuzzyIdle
           /\ CacheIdle
           /\ MergeIdle

(***************************************************************************)
(* StructuralChange._analyze_one_date(dt), run on result store ci_dict     *)
(***************************************************************************)
Outcome(exc, res, ci_dict, calls) ==
    [raised |-> exc, res |-> res, ci_dict |-> ci_dict, calls |-> calls]

\* variant: the post-period starts on dt - 1, overlapping the pre-period
_analyze_one_date_overlap(dt, ci_dict) ==
    LET parsed == Strptime(dt)
        minus == MinusOneDay(parsed.date)
        dt_m1 == Strftime(minus.date, pad_year)
        pre_period == <<_df_index_min, dt_m1>>
        post_period == <<dt_m1, _df_index_max>>
        ci == CausalImpact(_df, pre_period, post_period)
    IN IF parsed.raised # "None"
       THEN Outcome(parsed.raised, NoneValue, ci_dict, <<>>)
       ELSE IF minus.raised # "None"
       THEN Outcome(minus.raised, NoneValue, ci_dict, <<>>)
       ELSE IF StrLess(_df_index_min, dt_m1) /\ StrLess(dt, _df_index_max)
       THEN Outcome("None", Table(<<Row(ci, dt)>>),
                    DictSet(ci_dict, dt, ci), <<ci>>)
       ELSE Outcome("None", NoneValue, ci_dict, <<>>)

\* variant: the bounds are read again from the series on every call
_analyze_one_date_live(dt, ci_dict) ==
    LET parsed == Strptime(dt)
        minus == MinusOneDay(parsed.date)
        dt_m1 == Strftime(minus.date, pad_year)
        live_min == Strftime(_df.lo, pad_year)
        live_max == Strftime(_df.hi, pad_year)
        pre_period == <<live_min, dt_m1>>
        post_period == <<dt, live_max>>
        ci == CausalImpact(_df, pre_period, post_period)
    IN IF parsed.raised # "None"
       THEN Outcome(parsed.raised, NoneValue, ci_dict, <<>>)
       ELSE IF minus.raised # "None"
       THEN Outcome(minus.raised, NoneValue, ci_dict, <<>>)
       ELSE IF StrLess(live_min, dt_m1) /\ StrLess(dt, live_max)
       THEN Outcome("None", Table(<<Row(ci, dt)>>),
                    DictSet(ci_dict, dt, ci), <<ci>>)
       ELSE Outcome("None", NoneValue, ci_dict, <<>>)

\* variant: the impact object is built and stored before the boundary test
_analyze_one_date_eager(dt, ci_dict) ==
    LET parsed == Strptime(dt)
        minus == MinusOneDay(parsed.date)
        dt_m1 == Strftime(minus.date, pad_year)
        pre_period == <<_df_index_min, dt_m1>>
        post_period == <<dt, _df_index_max>>
        ci == CausalImpact(_df, pre_period, post_period)
    IN IF parsed.raised # "None"
       THEN Outcome(parsed.raised, NoneValue, ci_dict, <<>>)
       ELSE IF minus.raised # "None"
       THEN Outcome(minus.raised, NoneValue, ci_dict, <<>>)
       ELSE IF StrLess(_df_index_min, dt_m1) /\ StrLess(dt, _df_index_max)
       THEN Outcome("None", Table(<<Row(ci, dt)>>),
                    DictSet(ci_dict, dt, ci), <<ci>>)
       ELSE Outcome("None", NoneValue, DictSet(ci_dict, dt, ci), <<ci>>)

_analyze_one_date(dt, ci_dict) ==
    LET parsed == Strptime(dt)
        minus == MinusOneDay(parsed.date)
        dt_m1 == Strftime(minus.date, pad_year)
        pre_period == <<_df_index_min, dt_m1>>
        post_period == <<dt, _df_index_max>>
        ci == CausalImpact(_df, pre_period, post_period)
    IN IF parsed.raised # "None"
       THEN Outcome(parsed.raised, NoneValue, ci_dict, <<>>)
       ELSE IF minus.raised # "None"
       THEN Outcome(minus.raised, NoneValue, ci_dict, <<>>)
       ELSE IF StrLess(_df_index_min, dt_m1) /\ StrLess(dt, _df_index_max)
       THEN Outcome("None", Table(<<Row(ci, dt)>>),
                    DictSet(ci_dict, dt, ci), <<ci>>)
       ELSE Outcome("None", NoneValue, ci_dict, <<>>)

(***************************************************************************)
(* StructuralChange.analyze()                                              *)
(***************************************************************************)
Call(dt, before, out) == [dt |-> dt, before |-> before, out |-> out]

\* variant: res_list.insert(0, res) instead of res_list.append(res)
RECURSIVE AnalyzeFrom_prepend(_, _, _, _, _)
AnalyzeFrom_prepend(i, res_list, ci_dict, calls, tr) ==
    IF i > Len(possible_date_list)
    THEN [raised |-> "None", res_list |-> res_list, ci_dict |-> ci_dict,
          calls |-> calls, trace |-> tr]
    ELSE LET dt == possible_date_list[i]
             out == _analyze_one_date(dt, ci_dict)
             tr2 == Append(tr, Call(dt, ci_dict, out))
         IN IF out.raised # "None"
            THEN [raised |-> out.raised, res_list |-> res_list,
                  ci_dict |-> out.ci_dict, calls |-> calls \o out.calls,
                  trace |-> tr2]
            ELSE AnalyzeFrom_prepend(i + 1,
                                     IF out.res.none THEN res_list
                                     ELSE out.res.rows \o res_list,
                                     out.ci_dict, calls \o out.calls, tr2)

\* the for loop from entry i on; an exception leaves the loop
RECURSIVE AnalyzeFrom(_, _, _, _, _)
AnalyzeFrom(i, res_list, ci_dict, calls, tr) ==
    IF i > Len(possible_date_list)
    THEN [raised |-> "None", res_list |-> res_list, ci_dict |-> ci_dict,
          calls |-> calls, trace |-> tr]
    ELSE LET dt == possible_date_list[i]
             out == _analyze_one_date(dt, ci_dict)
             tr2 == Append(tr, Call(dt, ci_dict, out))
         IN IF out.raised # "None"
            THEN [raised |-> out.raised, res_list |-> res_list,
                  ci_dict |-> out.ci_dict, calls |-> calls \o out.calls,
                  trace |-> tr2]
            ELSE AnalyzeFrom(i + 1,
                             IF out.res.none THEN res_list
                             ELSE res_list \o out.res.rows,
                             out.ci_dict, calls \o out.calls, tr2)

\* pd.concat(res_list, axis=1).T.set_index("change_date"):
\* "No objects to concatenate" for an empty list
Concat(res_list) ==
    IF res_list = <<>> THEN [raised |-> "ValueError", table |-> NoneValue]
    ELSE [raised |-> "None", table |-> Table(res_list)]

\* variant: res_list is not reset, it keeps the rows of the last summary
Analyze_accumulating ==
    LET loop == AnalyzeFrom(1, _df_summary.rows, _ci_dict, <<>>, <<>>)
        cat == Concat(loop.res_list)
        exc == IF loop.raised # "None" THEN loop.raised ELSE cat.raised
    IN /\ constructed
       /\ op' = "analyze"
       /\ arg' = <<>>
       /\ raised' = exc
       /\ ret' = NoneValue
       /\ warned' = FALSE
       /\ ci_calls' = loop.calls
       /\ trace' = loop.trace
       /\ _ci_dict' = loop.ci_dict
       /\ _df_summary' = IF exc = "None" THEN cat.table ELSE _df_summary
       /\ analyze_called' = TRUE
       /\ analyze_done' = (analyze_done \/ exc = "None")
       /\ summary_before' = _df_summary
       /\ ci_dict_before' = _ci_dict
       /\ UNCHANGED <<_df, possible_date_list, _df_index_min, _df_index_max,
                      pad_year>>
       /\ UNCHANGED sc_fixed

\* variant: the loop consumes the list it iterates (pop instead of for)
Analyze_consuming ==
    LET loop == AnalyzeFrom(1, <<>>, _ci_dict, <<>>, <<>>)
        cat == Concat(loop.res_list)
        exc == IF loop.raised # "None" THEN loop.raised ELSE cat.raised
    IN /\ constructed
       /\ op' = "analyze"
       /\ arg' = <<>>
       /\ raised' = exc
       /\ ret' = NoneValue
       /\ warned' = FALSE
       /\ ci_calls' = loop.calls
       /\ trace' = loop.trace
       /\ _ci_dict' = loop.ci_dict
       /\ _df_summary' = IF exc = "None" THEN cat.table ELSE _df_summary
       /\ analyze_called' = TRUE
       /\ analyze_done' = (analyze_done \/ exc = "None")
       /\ summary_before' = _df_summary
       /\ ci_dict_before' = _ci_dict
       /\ possible_date_list' = <<>>
       /\ UNCHANGED <<_df, _df_index_min, _df_index_max, pad_year>>
       /\ UNCHANGED sc_fixed

\* variant: a failing analyze() puts the result store back as it found it
Analyze_rollback ==
    LET loop == AnalyzeFrom(1, <<>>, _ci_dict, <<>>, <<>>)
        cat == Concat(loop.res_list)
        exc == IF loop.raised # "None" THEN loop.raised ELSE cat.raised
    IN /\ constructed
       /\ op' = "analyze"
       /\ arg' = <<>>
       /\ raised' = exc
       /\ ret' = NoneValue
       /\ warned' = FALSE
       /\ ci_calls' = loop.calls
       /\ trace' = loop.trace
       /\ _ci_dict' = IF exc = "None" THEN loop.ci_dict ELSE _ci_dict
       /\ _df_summary' = IF exc = "None" THEN cat.table ELSE _df_summary
       /\ analyze_called' = TRUE
       /\ analyze_done' = (analyze_done \/ exc = "None")
       /\ summary_before' = _df_summary
       /\ ci_dict_before' = _ci_dict
       /\ UNCHANGED <<_df, possible_date_list, _df_index_min, _df_index_max,
                      pad_year>>
       /\ UNCHANGED sc_fixed

Analyze ==
    LET loop == AnalyzeFrom(1, <<>>, _ci_dict, <<>>, <<>>)
        cat == Concat(loop.res_list)
        exc == IF loop.raised # "None" THEN loop.raised ELSE cat.raised
    IN /\ constructed
       /\ op' = "analyze"
       /\ arg' = <<>>
       /\ raised' = exc
       /\ ret' = NoneValue
       /\ warned' = FALSE
       /\ ci_calls' = loop.calls
       /\ trace' = loop.trace
       /\ _ci_dict' = loop.ci_dict
       /\ _df_summary' = IF exc = "None" THEN cat.table ELSE _df_summary
       /\ analyze_called' = TRUE
       /\ analyze_done' = (analyze_done \/ exc = "None")
       /\ summary_before' = _df_summary
       /\ ci_dict_before' = _ci_dict
       /\ UNCHANGED <<_df, possible_date_list, _df_index_min, _df_index_max,
                      pad_year>>
       /\ UNCHANGED sc_fixed

(***************************************************************************)
(* StructuralChange.plot(dt, show)                                         *)
(***************************************************************************)
Lookup(d, k) ==
    IF k \in DOMAIN d THEN [raised |-> "None", value |-> d[k]]
    ELSE [raised |-> "KeyError", value |-> NoCI]

\* variant: plotting takes the entry out of the store (pop instead of [])
Plot_popping(dt) ==
    /\ constructed
    /\ op' = "plot"
    /\ arg' = dt
    /\ raised' = Lookup(_ci_dict, dt).raised
    /\ ret' = NoneValue
    /\ warned' = FALSE
    /\ ci_calls' = <<>>
    /\ trace' = <<>>
    /\ summary_before' = _df_summary
    /\ ci_dict_before' = _ci_dict
    /\ _ci_dict' = [x \in (DOMAIN _ci_dict) \ {dt} |-> _ci_dict[x]]
    /\ UNCHANGED <<_df, possible_date_list, _df_index_min, _df_index_max,
                   _df_summary, pad_year, analyze_called, analyze_done>>
    /\ UNCHANGED sc_fixed

Plot(dt) ==
    /\ constructed
    /\ op' = "plot"
    /\ arg' = dt
    /\ raised' = Lookup(_ci_dict, dt).raised
    /\ ret' = NoneValue
    /\ warned' = FALSE
    /\ ci_calls' = <<>>
    /\ trace' = <<>>
    /\ summary_before' = _df_summary
    /\ ci_dict_before' = _ci_dict
    /\ UNCHANGED <<_df, possible_date_list, _df_index_min, _df_index_max,
                   _df_summary, _ci_dict, pad_year, analyze_called,
                   analyze_done>>
    /\ UNCHANGED sc_fixed

(***************************************************************************)
(* StructuralChange.summary()                                              *)
(***************************************************************************)
\* variant: probing the summary too early raises instead of warning
SummaryResult_raising(df_summary) ==
    IF df_summary.none
    THEN [raised |-> "RuntimeError", warned |-> FALSE, ret |-> NoneValue]
    ELSE [raised |-> "None", warned |-> FALSE, ret |-> df_summary]

SummaryResult(df_summary) ==
    IF df_summary.none
    THEN [raised |-> "None", warned |-> TRUE, ret |-> NoneValue]
    ELSE [raised |-> "None", warned |-> FALSE, ret |-> df_summary]

\* variant: summary() hands the table out and forgets it
Summary_clearing ==
    /\ constructed
    /\ op' = "summary"
    /\ arg' = <<>>
    /\ raised' = SummaryResult(_df_summary).raised
    /\ ret' = SummaryResult(_df_summary).ret
    /\ warned' = SummaryResult(_df_summary).warned
    /\ ci_calls' = <<>>
    /\ trace' = <<>>
    /\ summary_before' = _df_summary
    /\ ci_dict_before' = _ci_dict
    /\ _df_summary' = NoneValue
    /\ UNCHANGED <<_df, possible_date_list, _df_index_min, _df_index_max,
                   _ci_dict, pad_year, analyze_called, analyze_done>>
    /\ UNCHANGED sc_fixed

Summary ==
    /\ constructed
    /\ op' = "summary"
    /\ arg' = <<>>
    /\ raised' = SummaryResult(_df_summary).raised
    /\ ret' = SummaryResult(_df_summary).ret
    /\ warned' = SummaryResult(_df_summary).warned
    /\ ci_calls' = <<>>
    /\ trace' = <<>>
    /\ summary_before' = _df_summary
    /\ ci_dict_before' = _ci_dict
    /\ UNCHANGED <<_df, possible_date_list, _df_index_min, _df_index_max,
                   _df_summary, _ci_dict, pad_year, analyze_called,
                   analyze_done>>
    /\ UNCHANGED sc_fixed

(***************************************************************************)
(* The caller changes, in place, the DataFrame it handed over: self._df is *)
(* a reference to that object, not a copy.                                 *)
(***************************************************************************)
CallerMutatesSeries(s) ==
    /\ constructed
    /\ s # _df
    /\ _df' = s
    /\ op' = "mutate_df"
    /\ arg' = <<>>
    /\ raised' = "None"
    /\ ret' = NoneValue
    /\ warned' = FALSE
    /\ ci_calls' = <<>>
    /\ trace' = <<>>
    /\ summary_before' = _df_summary
    /\ ci_dict_before' = _ci_dict
    /\ UNCHANGED <<possible_date_list, _df_index_min, _df_index_max,
                   _df_summary, _ci_dict, pad_year, analyze_called,
                   analyze_done>>
    /\ UNCHANGED sc_fixed

Next ==
    \/ Analyze
    \/ \E dt \in PlotDates : Plot(dt)
    \/ Summary
    \/ \E s \in SeriesChoices : CallerMutatesSeries(s)

Spec == Init /\ [][Next]_vars

(***************************************************************************)
(* The data source and the inputs of the data classes                      *)
(***************************************************************************)
Todays == {Date(2023, 3, 1), Date(2024, 2, 29)}

FirstTradeDates == {S(2019, 6, 3), S(2021, 3, 15)}

TickerInputs == {Obj("str", "aapl"), Obj("int", "")}

TypeInputs ==
    {Obj("str", "statement"), Obj("str", "stock"), Obj("str", "both"),
     Obj("str", "price"), NoneObj}

StatementFrequencyInputs ==
    {NoneObj, Obj("str", "annual"), Obj("str", "quarterly"),
     Obj("str", "monthly"), Obj("int", "")}

StockFrequencyInputs ==
    {NoneObj, Obj("str", "daily"), Obj("str", "hourly"), Obj("int", "")}

DateInputs ==
    {NoneDate, DateObj("int", <<>>),
     DateObj("str", S(2018, 1, 1)), DateObj("str", S(2022, 6, 1)),
     DateObj("str", S(2023, 3, 1)),
     DateObj("str", Unpadded(2021, 1, 4)),
     DateObj("str", Unpadded(2022, 1, 4)),
     DateObj("str", Slashed(2022, 6, 1))}

\* (ticker, start_date, end_date, frequency): every pair of dates with the
\* default frequency, every frequency with the default dates, and a ticker
\* that is not a str
StockDataInputs ==
    {<<Obj("str", "aapl"), st, en, NoneObj>> :
         st \in DateInputs, en \in DateInputs}
    \cup {<<Obj("str", "aapl"), NoneDate, NoneDate, f>> :
              f \in StockFrequencyInputs}
    \cup {<<Obj("int", ""), NoneDate, NoneDate, NoneObj>>}

\* a request sent to the data source (a method of the YahooFinancials object)
Query(kind, start, end, frequency) ==
    [kind |-> kind, start |-> start, end |-> end, frequency |-> frequency]

\* what get_historical_price_data answers for the ticker
PriceAnswer ==
    IF source.has_stock
    THEN Prices({"eventsData", "firstTradeDate", "currency",
                 "instrumentType", "timeZone", "prices"}, 0,
                source.first_trade)
    ELSE Prices({"eventsData"}, 0, <<>>)

\* str.upper(), on the tickers used
Upper(w) == IF w = "aapl" THEN "AAPL" ELSE w

\* obj == word, for an argument that need not be a str
IsWord(obj, word) == obj.type = "str" /\ obj.value = word

RECURSIVE MinusDays(_, _)
\* dt - relativedelta(days=n)
MinusDays(dt, n) ==
    IF n = 0 THEN dt ELSE MinusDays(MinusOneDay(dt).date, n - 1)

\* dt - relativedelta(years=3): the day is clipped to the month's length
ThreeYearsAgo(dt) ==
    LET last == DaysInMonth(dt.y - 3, dt.m)
    IN Date(dt.y - 3, dt.m, IF dt.d > last THEN last ELSE dt.d)

\* Python's max(a, b) on str: b only if a < b
StrMax(a, b) == IF StrLess(a, b) THEN b ELSE a

(***************************************************************************)
(* _validate_type_str, _validate_date                                      *)
(***************************************************************************)
\* variant: the type is not looked at
_validate_type_str_unchecked(obj) ==
    [raised |-> "None", value |-> obj.value]

_validate_type_str(obj) ==
    IF obj.type # "str"
    THEN [raised |-> "TypeError", value |-> obj.value]
    ELSE [raised |-> "None", value |-> obj.value]

_validate_date(obj) ==
    LET t == _validate_type_str(obj)
    IN IF t.raised # "None" THEN t
       ELSE IF Strptime(t.value).raised # "None"
       THEN [raised |-> "ValueError", value |-> t.value]
       ELSE [raised |-> "None", value |-> t.value]

(***************************************************************************)
(* A call in progress: the object it works on, the requests it has sent to *)
(* the data source, the exception it has raised and the value it returns   *)
(***************************************************************************)
Sent(self, log) ==
    [raised |-> "None", self |-> self, log |-> log, ret |-> NoneStr,
     message |-> <<>>]

Raise(r, exc) == [r EXCEPT !.raised = exc]

\* raise exc(message); the message is kept as the pieces of its f-string
RaiseWith(r, exc, message) ==
    [r EXCEPT !.raised = exc, !.message = message]

\* the result of a validator that returns value
Ok(value) == [raised |-> "None", value |-> value]

\* self.<name> = <validator result>, the exception passing through
SetAttr(r, name, v) ==
    IF v.raised # "None" THEN Raise(r, v.raised)
    ELSE [r EXCEPT !.self[name] = v.value]

(***************************************************************************)
(* CheckTicker                                                             *)
(***************************************************************************)
_validate_statement(o) ==
    [o EXCEPT !.self.has_statement =
                  IF source.has_statement THEN TRUE ELSE @,
              !.log = Append(@, Query("get_financial_stmts", <<>>, <<>>,
                                      "Quarterly"))]

_validate_stock(o) ==
    [o EXCEPT !.self._today_prices = PriceAnswer,
              !.self.has_stock = IF Cardinality(PriceAnswer.keys) > 1
                                    \/ PriceAnswer.eventsData > 0
                                 THEN TRUE ELSE @,
              !.log = Append(@, Query("get_historical_price_data",
                                      Strftime(MinusDays(today, 8), TRUE),
                                      Strftime(today, TRUE), "weekly"))]

\* _validate, first if
_validate_if_statement(o, type) ==
    IF IsWord(type, "statement") \/ IsWord(type, "both")
    THEN _validate_statement(o) ELSE o

\* variant: "statement" also runs the stock check
_validate_if_stock_eager(o, type) ==
    IF IsWord(type, "stock") \/ IsWord(type, "both")
       \/ IsWord(type, "statement")
    THEN _validate_stock(o) ELSE o

\* _validate, second if
_validate_if_stock(o, type) ==
    IF IsWord(type, "stock") \/ IsWord(type, "both")
    THEN _validate_stock(o) ELSE o

\* _validate, third if
_validate_if_other(o, type) ==
    IF \E w \in {"statement", "stock", "both"} : IsWord(type, w)
    THEN o ELSE Raise(o, "ValueError")

_validate(o, type) ==
    _validate_if_other(
        _validate_if_stock(_validate_if_statement(o, type), type), type)

\* the constructor hands the object over unless it raised
Constructed(r) == [r EXCEPT !.self.exists = (r.raised = "None")]

CheckTicker__init__(ticker, type) ==
    IF _validate_type_str(ticker).raised # "None"
    THEN Raise(Sent(NewCheckTicker(""), <<>>), "TypeError")
    ELSE Constructed(
             _validate(Sent(NewCheckTicker(Upper(ticker.value)), <<>>),
                       type))

\* _pull_first_trade_date, second if
_pull_if_has_stock(o) ==
    IF ~o.self.has_stock THEN o
    ELSE IF "firstTradeDate" \notin o.self._today_prices.keys
    THEN Raise(o, "KeyError")
    ELSE [o EXCEPT !.self.first_trade_date =
                       Str(o.self._today_prices.firstTradeDate)]

_pull_first_trade_date(o) ==
    _pull_if_has_stock(IF o.self._today_prices.none
                       THEN _validate(o, Obj("str", "stock"))
                       ELSE o)

\* return self.first_trade_date
_return_first_trade_date(o) ==
    IF o.raised # "None" THEN o
    ELSE [o EXCEPT !.ret = o.self.first_trade_date]

\* variant: the price data is fetched again on every call
get_first_trade_date_refetch(o) ==
    _return_first_trade_date(
        _pull_first_trade_date([o EXCEPT !.self._today_prices = NoPrices]))

get_first_trade_date(o) ==
    _return_first_trade_date(IF o.self.first_trade_date.none
                             THEN _pull_first_trade_date(o)
                             ELSE o)

\* ct = CheckTicker(ticker, type)
ConstructCheckTicker(ticker, type) ==
    LET new == CheckTicker__init__(ticker, type)
    IN /\ ct' = new.self
       /\ ct_before' = NewCheckTicker("")
       /\ queries' = new.log
       /\ dop' = "CheckTicker"
       /\ darg' = Args(ticker, type, NoneObj, NoneDate, NoneDate)
       /\ draised' = new.raised
       /\ dret' = RetNone
       /\ fsd' = NoFSD
       /\ sd' = NoSD
       /\ UNCHANGED <<today, source, beside_data>>

\* ct.get_first_trade_date()
GetFirstTradeDate ==
    LET res == get_first_trade_date(Sent(ct, <<>>))
    IN /\ ct.exists
       /\ ct' = res.self
       /\ ct_before' = ct
       /\ queries' = res.log
       /\ dop' = "get_first_trade_date"
       /\ darg' = NoArgs
       /\ draised' = res.raised
       /\ dret' = IF res.ret.none THEN RetNone
                  ELSE Ret("str", "", res.ret.value)
       /\ fsd' = NoFSD
       /\ sd' = NoSD
       /\ UNCHANGED <<today, source, beside_data>>

(***************************************************************************)
(* FinancialStatementData                                                  *)
(***************************************************************************)
\* the ValueError object that line 428 creates and returns
ValueErrorInstance == Ret("ValueError", "quarterly or annual", <<>>)

_validate_input_frequency(obj) ==
    IF obj.type = "NoneType"
    THEN Ok(Ret("str", "quarterly", <<>>))
    ELSE IF obj.type # "str"
    THEN [raised |-> "TypeError", value |-> RetNone]
    ELSE IF obj.value \in {"annual", "quarterly"}
    THEN Ok(Ret("str", obj.value, <<>>))
    ELSE Ok(ValueErrorInstance)

\* the frequency a request carries
Word(frequency) ==
    IF frequency.kind = "str" THEN frequency.word ELSE "ValueError()"

\* lines 233-240, given the CheckTicker c that line 233 made
_fsd_ticker(c) ==
    IF c.raised # "None" THEN Raise(Sent(NoFSD, c.log), c.raised)
    ELSE IF ~c.self.has_statement
    THEN Raise(Sent(NoFSD, c.log), "ValueError")
    ELSE Sent([NoFSD EXCEPT !.ticker = c.self.ticker], c.log)

\* line 242: self.frequency = self._validate_input_frequency(frequency)
_fsd_frequency(r, frequency) ==
    IF r.raised # "None" THEN r
    ELSE SetAttr(r, "frequency", _validate_input_frequency(frequency))

\* self._pull_data(); serves: whether the source library answers a request
\* whose frequency is not one of its words under the header that
\* _format_financial_data looks up
_pull_data(r, serves) ==
    IF r.raised # "None" THEN r
    ELSE IF r.self.frequency.kind # "str" /\ ~serves
    THEN [r EXCEPT !.raised = "KeyError",
                   !.log = Append(@, Query("get_financial_stmts", <<>>,
                                           <<>>, Word(r.self.frequency)))]
    ELSE [r EXCEPT !.log = @ \o [i \in 1..3 |->
                                    Query("get_financial_stmts", <<>>,
                                          <<>>, Word(r.self.frequency))]]

FinancialStatementData__init__(ticker, frequency, serves) ==
    Constructed(
        _pull_data(
            _fsd_frequency(
                _fsd_ticker(CheckTicker__init__(
                                ticker, Obj("str", "statement"))),
                frequency),
            serves))

\* FinancialStatementData._validate_input_frequency(obj)
ValidateInputFrequency(obj) ==
    LET f == _validate_input_frequency(obj)
    IN /\ dop' = "_validate_input_frequency"
       /\ darg' = Args(NoneObj, NoneObj, obj, NoneDate, NoneDate)
       /\ draised' = f.raised
       /\ dret' = f.value
       /\ queries' = <<>>
       /\ fsd' = NoFSD
       /\ sd' = NoSD
       /\ UNCHANGED <<today, source, ct, ct_before, beside_data>>

\* fsd = FinancialStatementData(ticker, frequency)
ConstructFinancialStatementData(ticker, frequency, serves) ==
    LET new == FinancialStatementData__init__(ticker, frequency, serves)
    IN /\ fsd' = new.self
       /\ queries' = new.log
       /\ dop' = "FinancialStatementData"
       /\ darg' = Args(ticker, NoneObj, frequency, NoneDate, NoneDate)
       /\ draised' = new.raised
       /\ dret' = RetNone
       /\ sd' = NoSD
       /\ UNCHANGED <<today, source, ct, ct_before, beside_data>>

(***************************************************************************)
(* StockData                                                               *)
(***************************************************************************)
_validate_frequency(obj) ==
    IF _validate_type_str(obj).raised # "None"
    THEN _validate_type_str(obj)
    ELSE IF obj.value \notin {"daily", "weekly", "monthly"}
    THEN [raised |-> "ValueError", value |-> obj.value]
    ELSE Ok(obj.value)

\* raises iff the end date is, as a string, less than the start date
_check_date_logic(self) ==
    IF StrLess(self.end_date, self.start_date) THEN "ValueError" ELSE "None"

\* line 558: self.first_trade_date = ct.get_first_trade_date()
_sd_first_trade_date(ticker, g) ==
    IF g.raised # "None" THEN Raise(Sent(NoSD, g.log), g.raised)
    ELSE Sent([NoSD EXCEPT !.ticker = ticker, !.first_trade_date = g.ret],
              g.log)

\* lines 549-558, given the CheckTicker c that line 549 made
_sd_ticker(c) ==
    IF c.raised # "None" THEN Raise(Sent(NoSD, c.log), c.raised)
    ELSE IF ~c.self.has_stock
    THEN Raise(Sent(NoSD, c.log), "ValueError")
    ELSE _sd_first_trade_date(c.self.ticker, get_first_trade_date(c))

\* lines 561-564
_sd_frequency(r, frequency) ==
    IF r.raised # "None" THEN r
    ELSE SetAttr(r, "frequency",
                 IF frequency.type = "NoneType" THEN Ok("daily")
                 ELSE _validate_frequency(frequency))

\* lines 566-571
_sd_end_date(r, end_date) ==
    IF r.raised # "None" THEN r
    ELSE SetAttr(r, "end_date",
                 IF end_date.type = "NoneType"
                 THEN Ok(Strftime(today, TRUE))
                 ELSE _validate_date(end_date))

\* max(<validated date>, self.first_trade_date)
_max_first_trade_date(v, first_trade_date) ==
    IF v.raised # "None" THEN v
    ELSE Ok(StrMax(v.value, first_trade_date))

\* lines 573-585
_sd_start_date(r, start_date) ==
    IF r.raised # "None" THEN r
    ELSE SetAttr(r, "start_date",
                 _max_first_trade_date(
                     IF start_date.type = "NoneType"
                     THEN Ok(Strftime(ThreeYearsAgo(today), TRUE))
                     ELSE _validate_date(start_date),
                     r.self.first_trade_date.value))

\* line 587: self._check_date_logic()
_sd_check_date_logic(r) ==
    IF r.raised # "None" THEN r
    ELSE IF _check_date_logic(r.self) # "None"
    THEN Raise(r, _check_date_logic(r.self))
    ELSE r

\* line 590: self._set_obj()
_set_obj(r) ==
    IF r.raised # "None" THEN r
    ELSE [r EXCEPT !.log = Append(@, Query("get_historical_price_data",
                                           r.self.start_date,
                                           r.self.end_date,
                                           r.self.frequency))]

StockData__init__(ticker, start_date, end_date, frequency) ==
    Constructed(
        _set_obj(
            _sd_check_date_logic(
                _sd_start_date(
                    _sd_end_date(
                        _sd_frequency(
                            _sd_ticker(CheckTicker__init__(
                                           ticker, Obj("str", "stock"))),
                            frequency),
                        end_date),
                    start_date))))

\* sd = StockData(ticker, start_date, end_date, frequency)
ConstructStockData(ticker, start_date, end_date, frequency) ==
    LET new == StockData__init__(ticker, start_date, end_date, frequency)
    IN /\ sd' = new.self
       /\ queries' = new.log
       /\ dop' = "StockData"
       /\ darg' = Args(ticker, NoneObj, frequency, start_date, end_date)
       /\ draised' = new.raised
       /\ dret' = RetNone
       /\ fsd' = NoFSD
       /\ UNCHANGED <<today, source, ct, ct_before, beside_data>>

(***************************************************************************)
(* The data classes, used against one data source on one day               *)
(***************************************************************************)
\* no analyser exists
StructuralChangeIdle ==
    /\ df_arg = Arg("NoneType", "None", NoSeries)
    /\ pad_year = TRUE
    /\ constructed = FALSE
    /\ raised = "None"
    /\ _df = NoSeries
    /\ df_init = NoSeries
    /\ possible_date_list = <<>>
    /\ _df_index_min = <<>>
    /\ _df_index_max = <<>>
    /\ _df_summary = NoneValue
    /\ _ci_dict = EmptyDict
    /\ op = "idle"
    /\ arg = <<>>
    /\ ret = NoneValue
    /\ warned = FALSE
    /\ ci_calls = <<>>
    /\ trace = <<>>
    /\ analyze_called = FALSE
    /\ analyze_done = FALSE
    /\ summary_before = NoneValue
    /\ ci_dict_before = EmptyDict

DataInit ==
    \E t \in Todays, hs \in BOOLEAN, hp \in BOOLEAN,
       f \in FirstTradeDates :
        /\ today = t
        /\ source = [has_statement |-> hs, has_stock |-> hp,
                     first_trade |-> IF hp THEN f ELSE <<>>]
        /\ ct = NewCheckTicker("")
        /\ ct_before = NewCheckTicker("")
        /\ fsd = NoFSD
        /\ sd = NoSD
        /\ queries = <<>>
        /\ dop = "idle"
        /\ darg = NoArgs
        /\ draised = "None"
        /\ dret = RetNone
        /\ StructuralChangeIdle
        /\ FuzzyIdle
        /\ CacheIdle
        /\ MergeIdle

DataNext ==
    \/ \E t \in TickerInputs, ty \in TypeInputs : ConstructCheckTicker(t, ty)
    \/ GetFirstTradeDate
    \/ \E f \in StatementFrequencyInputs : ValidateInputFrequency(f)
    \/ \E t \in TickerInputs, f \in StatementFrequencyInputs,
          serves \in BOOLEAN :
          ConstructFinancialStatementData(t, f, serves)
    \/ \E i \in StockDataInputs :
          ConstructStockData(i[1], i[2], i[3], i[4])

DataSpec == DataInit /\ [][DataNext]_vars

(***************************************************************************)
(* FuzzyMatch                                                              *)
(***************************************************************************)
MaxRows == 2

Labels == {"Company Name", "Ticker"}

\* one row of the company table
CompanyRow(name, ticker) ==
    [c \in Labels |-> IF c = "Company Name" THEN name ELSE ticker]

CompanyRows ==
    {CompanyRow(n, t) :
         n \in {"Apple Inc.", "Amazon.com, Inc.", "Alphabet Inc."},
         t \in {"AAPL", "AMZN"}}

FrameInputs ==
    {Frame(Labels, rows) :
         rows \in UNION {[1..n -> CompanyRows] : n \in 0..MaxRows}}
    \cup {NoFrame}

ColumnInputs ==
    {Obj("str", "Company Name"), Obj("str", "Ticker"),
     Obj("str", "foobar"), Obj("int", "")}

\* variant: every value is listed once (list(set(...)), first places kept)
Column_unique(df, col) ==
    LET kept == {i \in DOMAIN df.rows :
                    \A j \in 1..(i - 1) : df.rows[j][col] # df.rows[i][col]}
        n == Cardinality(kept)
        at == CHOOSE g \in [1..n -> kept] :
                  \A a, b \in 1..n : a < b => g[a] < g[b]
    IN [k \in 1..n |-> df.rows[at[k]][col]]

\* df[col].to_list()
Column(df, col) == [i \in DOMAIN df.rows |-> df.rows[i][col]]

FuzzyMatch__init__(df, match_by_col) ==
    IF _validate_dtype_df(df).raised # "None"
    THEN Raise(Sent(NoFM, <<>>), _validate_dtype_df(df).raised)
    ELSE IF _validate_type_str(match_by_col).raised # "None"
    THEN Raise(Sent([NoFM EXCEPT !.df_company = df], <<>>),
               _validate_type_str(match_by_col).raised)
    ELSE IF match_by_col.value \notin df.columns
    THEN RaiseWith(Sent([NoFM EXCEPT !.df_company = df,
                                     !.match_by_col = match_by_col.value],
                        <<>>),
                   "ValueError",
                   <<"Colname ", match_by_col.value, " does not exist ",
                     "in the input dataframe.">>)
    ELSE Sent([exists |-> TRUE, df_company |-> df,
               match_by_col |-> match_by_col.value,
               list_choices |-> Column(df, match_by_col.value)], <<>>)

\* fm = FuzzyMatch(df, match_by_col)
ConstructFuzzyMatch(df, match_by_col) ==
    LET new == FuzzyMatch__init__(df, match_by_col)
    IN /\ fm' = new.self
       /\ fm_arg' = [df |-> df, match_by_col |-> match_by_col]
       /\ fm_raised' = new.raised
       /\ fm_message' = new.message
       /\ fm_op' = "init"
       /\ fm_call' = NoMatchCall
       /\ fm_ret' = NoResult
       /\ UNCHANGED beside_fuzzy

\* the column labels of the company table, in the table's order
ColumnOrder == <<"Company Name", "Ticker">>

\* the values a column of the company table can hold
ColumnValues(col) ==
    IF col \in Labels THEN {r[col] : r \in CompanyRows} ELSE {}

\* the scores the extractor gives
Scores == {60, 90}

\* the num_result arguments
NumResults == {0, 1, MaxRows + 1}

\* extractWithoutOrder: every choice with its score, in the list's order
Scored(choices, score) ==
    [i \in DOMAIN choices |-> <<choices[i], score[choices[i]]>>]

\* the place of entry i when the list is sorted by score, best first, ties
\* in the list's order
Rank(scored, i) ==
    1 + Cardinality({j \in DOMAIN scored :
                        \/ scored[j][2] > scored[i][2]
                        \/ scored[j][2] = scored[i][2] /\ j < i})

\* heapq.nlargest(limit, scored, key=score)
nlargest(limit, scored) ==
    [k \in 1..(IF limit < Len(scored) THEN limit ELSE Len(scored)) |->
        scored[CHOOSE i \in DOMAIN scored : Rank(scored, i) = k]]

\* process.extract(input_text, choices, limit): score is what the scorer
\* gives each choice for input_text
extract(score, choices, limit) == nlargest(limit, Scored(choices, score))

\* pd.DataFrame(res, columns=[match_by_col, "Matching Score"])
ResultFrame(res, match_by_col) ==
    Result(<<match_by_col, "Matching Score">>,
           [k \in DOMAIN res |->
               [c \in {match_by_col, "Matching Score"} |->
                   IF c = match_by_col THEN res[k][1] ELSE res[k][2]]])

\* one row of the merge: the left row followed by the right row's other
\* columns
Joined(l, r, on) ==
    [c \in (DOMAIN l) \cup (DOMAIN r) |->
        IF c \in DOMAIN l THEN l[c] ELSE r[c]]

\* the rows of right whose key is the key of l, joined to l
JoinedTo(l, right, on) ==
    LET Same(r) == r[on] = l[on]
        found == SelectSeq(right, Same)
    IN [k \in DOMAIN found |-> Joined(l, found[k], on)]

RECURSIVE MergeRows(_, _, _, _)
\* inner merge: the left rows from the i-th on, in the left's order
MergeRows(left, right, on, i) ==
    IF i > Len(left) THEN <<>>
    ELSE JoinedTo(left[i], right, on) \o MergeRows(left, right, on, i + 1)

RECURSIVE MergeRowsRight(_, _, _, _)
\* variant: how="right", the rows come in the company table's order
MergeRowsRight(left, right, on, i) ==
    IF i > Len(right) THEN <<>>
    ELSE LET Same(l) == l[on] = right[i][on]
             found == SelectSeq(left, Same)
         IN [k \in DOMAIN found |-> Joined(found[k], right[i], on)]
            \o MergeRowsRight(left, right, on, i + 1)

\* the columns of right that are not the key, in right's order
Others(df, on) ==
    LET Other(c) == c # on /\ c \in df.columns
    IN SelectSeq(ColumnOrder, Other)

\* variant of merge: how="right"
merge_right(result, df, on) ==
    Result(result.columns \o Others(df, on),
           MergeRowsRight(result.rows, df.rows, on, 1))

\* result.merge(df, on=on, how="inner")
merge(result, df, on) ==
    Result(result.columns \o Others(df, on),
           MergeRows(result.rows, df.rows, on, 1))

\* fm.match(input_text, num_result), given what the extractor returned
match(self, res) ==
    merge(ResultFrame(res, self.match_by_col), self.df_company,
          self.match_by_col)

\* df_res = fm.match(input_text, num_result)
Match(num_result, score) ==
    LET res == extract(score, fm.list_choices, num_result)
    IN /\ fm.exists
       /\ fm_op' = "match"
       /\ fm_call' = MatchCall(num_result, score, res)
       /\ fm_ret' = match(fm, res)
       /\ fm_raised' = "None"
       /\ fm_message' = <<>>
       /\ UNCHANGED <<fm, fm_arg, beside_fuzzy>>

FuzzyInit ==
    /\ FuzzyIdle
    /\ CacheIdle
    /\ MergeIdle
    /\ DataIdle
    /\ StructuralChangeIdle

FuzzyNext ==
    \/ \E df \in FrameInputs, col \in ColumnInputs :
          ConstructFuzzyMatch(df, col)
    \/ \E n \in NumResults,
          score \in [ColumnValues(fm.match_by_col) -> Scores] :
          Match(n, score)

FuzzySpec == FuzzyInit /\ [][FuzzyNext]_vars

(***************************************************************************)
(* The cache folder: cach_data.py writes it, app.py reads it                *)
(***************************************************************************)
CacheTickers == {"META", "aapl"}

\* the keys of frequency_dict
CacheFrequencies == {"Q", "Y"}

\* the choices of the dashboard's radio button
DashboardFrequencies == {"quarterly", "annual"}

\* the release dates get_stock() derives from the statements
CacheDateLists ==
    { <<>>,
      <<S(2020, 1, 1), S(2020, 6, 15)>>,
      <<S(2020, 6, 15), Slashed(2020, 6, 15)>> }

\* the character of a code point, for the characters of a date string
Chr(c) ==
    CASE c = 45 -> "-" [] c = 47 -> "/" [] c = 48 -> "0" [] c = 49 -> "1"
      [] c = 50 -> "2" [] c = 51 -> "3" [] c = 52 -> "4" [] c = 53 -> "5"
      [] c = 54 -> "6" [] c = 55 -> "7" [] c = 56 -> "8" [] c = 57 -> "9"

\* a date string as the text an f-string inserts
RECURSIVE Text(_)
Text(s) == IF s = <<>> THEN "" ELSE Chr(Head(s)) \o Text(Tail(s))

\* cach_data.py, frequency_dict.get(frequency)
frequency_dict(frequency) ==
    IF frequency = "Q" THEN Obj("str", "quarterly")
    ELSE IF frequency = "Y" THEN Obj("str", "annual")
    ELSE NoneObj

\* app.py, fd_frequency_dict.get(fd_frequency)
fd_frequency_dict(fd_frequency) ==
    IF fd_frequency = "quarterly" THEN "Q"
    ELSE IF fd_frequency = "annual" THEN "Y"
    ELSE "None"

\* os.path.join(cach_folder, f"{filename}.p")
PicklePath(filename) == "./cached/" \o filename \o ".p"

\* cach_data.py line 24 and app.py line 110
FsdName(ticker, frequency) == "fsd_" \o ticker \o "_" \o frequency

\* cach_data.py line 72 and app.py line 221
SummaryName(ticker, frequency) ==
    "struc_change_" \o ticker \o "_" \o frequency \o "_summary"

\* cach_data.py lines 82-84: the path the picture of date td is moved to
FigurePath(ticker, frequency, td) ==
    "./cached/" \o "fig_struc_change_" \o ticker \o "_" \o frequency
        \o "_" \o td \o ".png"

\* app.py line 234: the name the dashboard loads for the selected date
FigureName(ticker, frequency, selected) ==
    "struc_change_" \o ticker \o "_" \o frequency \o "_fig" \o selected

\* open(path, "rb") and pickle.load
load_data(folder, filename) ==
    IF PicklePath(filename) \in DOMAIN folder
    THEN [raised |-> "None", obj |-> folder[PicklePath(filename)]]
    ELSE [raised |-> "FileNotFoundError", obj |-> NoFile]

\* open(path, "wb") and pickle.dump, or os.rename onto path
WriteFile(folder, path, file) ==
    [p \in (DOMAIN folder) \cup {path} |->
        IF p = path THEN file ELSE folder[p]]

\* one FinancialStatementData(ticker, frequency) call
Fetch(ticker, frequency) == [ticker |-> ticker, frequency |-> frequency]

GetFsdResult(exc, obj, folder, calls) ==
    [raised |-> exc, ret |-> obj, folder |-> folder, fetched |-> calls]

\* lines 29-33: the constructed object is dumped under fname, unless the
\* constructor raised
_fsd_dump(folder, fname, new, call) ==
    IF new.raised # "None"
    THEN GetFsdResult(new.raised, NoFile, folder, call)
    ELSE GetFsdResult("None", File("FinancialStatementData", new.self),
                      WriteFile(folder, PicklePath(fname),
                                File("FinancialStatementData", new.self)),
                      call)

\* variant: an existing entry is returned even when delete_if_exists is set
get_fsd_stale(folder, ticker, frequency, delete_if_exists, serves) ==
    IF PicklePath(FsdName(ticker, frequency)) \in DOMAIN folder
    THEN GetFsdResult("None",
                      load_data(folder, FsdName(ticker, frequency)).obj,
                      folder, <<>>)
    ELSE _fsd_dump(folder, FsdName(ticker, frequency),
                   FinancialStatementData__init__(
                       Obj("str", ticker), frequency_dict(frequency), serves),
                   <<Fetch(ticker, frequency_dict(frequency))>>)

\* cach_data.py get_fsd, on the folder as it is
get_fsd(folder, ticker, frequency, delete_if_exists, serves) ==
    IF PicklePath(FsdName(ticker, frequency)) \in DOMAIN folder
       /\ ~delete_if_exists
    THEN GetFsdResult("None",
                      load_data(folder, FsdName(ticker, frequency)).obj,
                      folder, <<>>)
    ELSE _fsd_dump(folder, FsdName(ticker, frequency),
                   FinancialStatementData__init__(
                       Obj("str", ticker), frequency_dict(frequency), serves),
                   <<Fetch(ticker, frequency_dict(frequency))>>)

\* the call has returned or raised r
GetFsdReturns(ticker, frequency, delete_if_exists, r) ==
    /\ cop' = "get_fsd"
    /\ carg' = CacheArgs(ticker, frequency, delete_if_exists, "")
    /\ craised' = r.raised
    /\ cret' = r.ret
    /\ cached' = r.folder
    /\ cached_before' = cached
    /\ fetched' = r.fetched
    /\ UNCHANGED <<sc_vars, data_vars, fm_vars, merge_vars>>

\* frequency_dict yields 'quarterly', 'annual' or None, which the source
\* serves: whether it serves other words is never asked
GetFsd(ticker, frequency, delete_if_exists) ==
    GetFsdReturns(ticker, frequency, delete_if_exists,
                  get_fsd(cached, ticker, frequency, delete_if_exists, FALSE))

\* the path of the picture of each key of the result store
FigurePaths(ticker, frequency, ci_dict) ==
    {FigurePath(ticker, frequency, Text(td)) : td \in DOMAIN ci_dict}

\* the key whose picture is moved to path p
KeyOf(ticker, frequency, ci_dict, p) ==
    CHOOSE td \in DOMAIN ci_dict : p = FigurePath(ticker, frequency, Text(td))

\* lines 77-86: every key of sc._ci_dict is plotted into temp.png, which
\* is then moved to the date's path
SaveFigures(folder, ticker, frequency, ci_dict) ==
    [p \in (DOMAIN folder) \cup FigurePaths(ticker, frequency, ci_dict) |->
        IF p \in FigurePaths(ticker, frequency, ci_dict)
        THEN File("png", ci_dict[KeyOf(ticker, frequency, ci_dict, p)])
        ELSE folder[p]]

\* lines 71-74: the summary table is dumped under the summary's name
SaveSummary(folder, ticker, frequency, table) ==
    WriteFile(folder, PicklePath(SummaryName(ticker, frequency)),
              File("DataFrame", table))

\* the call has raised exc, or has returned with the files written
CachStrucChgReturns(ticker, frequency, loop, table, exc) ==
    /\ constructed
    /\ op' = "analyze"
    /\ arg' = <<>>
    /\ raised' = exc
    /\ ret' = NoneValue
    /\ warned' = FALSE
    /\ ci_calls' = loop.calls
    /\ trace' = loop.trace
    /\ _ci_dict' = loop.ci_dict
    /\ _df_summary' = table
    /\ analyze_called' = TRUE
    /\ analyze_done' = (exc = "None")
    /\ summary_before' = NoneValue
    /\ ci_dict_before' = EmptyDict
    /\ cop' = "cach_struc_chg"
    /\ carg' = CacheArgs(ticker, frequency, FALSE, "")
    /\ craised' = exc
    /\ cret' = NoFile
    /\ cached' = IF exc # "None" THEN cached
                 ELSE SaveFigures(
                          SaveSummary(cached, ticker, frequency, table),
                          ticker, frequency, loop.ci_dict)
    /\ cached_before' = cached
    /\ fetched' = <<>>
    /\ UNCHANGED <<_df, possible_date_list, _df_index_min, _df_index_max,
                   pad_year, df_arg, df_init, constructed>>
    /\ UNCHANGED <<data_vars, fm_vars, merge_vars>>

\* line 69, sc.analyze(): after the loop, pd.concat
_cach_analyze(ticker, frequency, loop, cat) ==
    IF loop.raised # "None"
    THEN CachStrucChgReturns(ticker, frequency, loop, NoneValue, loop.raised)
    ELSE CachStrucChgReturns(ticker, frequency, loop, cat.table, cat.raised)

\* line 69, sc.analyze(): the loop has run
_cach_loop(ticker, frequency, loop) ==
    _cach_analyze(ticker, frequency, loop, Concat(loop.res_list))

\* cach_data.py cach_struc_chg: sc is the analyser constructed on
\* (df_stock_fill, change_dt_list), its result store still empty
CachStrucChg(ticker, frequency) ==
    _cach_loop(ticker, frequency,
               AnalyzeFrom(1, <<>>, EmptyDict, <<>>, <<>>))

\* st.selectbox(options=change_dt_list): the option the visitor picks,
\* None when there is no option
Selected(options, k) ==
    IF k \in DOMAIN options THEN Text(options[k]) ELSE "None"

\* app.py lines 220-240, for a ticker that has stock and statement data:
\* the visitor chose fd_frequency and picks option k of the select box
Section4(folder, ticker, fd_frequency, k) ==
    LET abbr == fd_frequency_dict(fd_frequency)
        selected == Selected(possible_date_list, k)
    IN IF PicklePath(SummaryName(ticker, abbr)) \notin DOMAIN folder
       THEN [raised |-> "None", obj |-> NoFile, selected |-> ""]
       ELSE [raised |-> load_data(folder,
                                  FigureName(ticker, abbr, selected)).raised,
             obj |-> load_data(folder,
                               FigureName(ticker, abbr, selected)).obj,
             selected |-> selected]

Dashboard(ticker, fd_frequency, k) ==
    LET r == Section4(cached, ticker, fd_frequency, k)
    IN /\ constructed
       /\ k \in DOMAIN possible_date_list \/ (k = 0 /\ possible_date_list = <<>>)
       /\ cop' = "dashboard"
       /\ carg' = CacheArgs(ticker, fd_frequency, FALSE, r.selected)
       /\ craised' = r.raised
       /\ cret' = r.obj
       /\ cached_before' = cached
       /\ fetched' = <<>>
       /\ UNCHANGED <<cached, sc_vars, data_vars, fm_vars, merge_vars>>

\* the analyser constructed on the series and the release dates, a source
\* that has or lacks statements for the ticker, and an empty folder
CacheInit ==
    \E lst \in CacheDateLists, pad \in BOOLEAN, hs \in BOOLEAN :
        LET s == Series(Date(2020, 1, 1), Date(2020, 12, 31))
            df == Arg("DataFrame", "DatetimeIndex", s)
            new == StructuralChange__init__(df, lst, pad)
        IN /\ df_arg = df
           /\ pad_year = pad
           /\ constructed = (new.raised = "None")
           /\ raised = new.raised
           /\ _df = new.df
           /\ df_init = new.df
           /\ possible_date_list = new.lst
           /\ _df_index_min = new.index_min
           /\ _df_index_max = new.index_max
           /\ _df_summary = NoneValue
           /\ _ci_dict = EmptyDict
           /\ op = "init"
           /\ arg = <<>>
           /\ ret = NoneValue
           /\ warned = FALSE
           /\ ci_calls = <<>>
           /\ trace = <<>>
           /\ analyze_called = FALSE
           /\ analyze_done = FALSE
           /\ summary_before = NoneValue
           /\ ci_dict_before = EmptyDict
           /\ today = Date(2023, 3, 1)
           /\ source = [has_statement |-> hs, has_stock |-> TRUE,
                        first_trade |-> S(2019, 6, 3)]
           /\ ct = NewCheckTicker("")
           /\ ct_before = NewCheckTicker("")
           /\ fsd = NoFSD
           /\ sd = NoSD
           /\ queries = <<>>
           /\ dop = "idle"
           /\ darg = NoArgs
           /\ draised = "None"
           /\ dret = RetNone
           /\ FuzzyIdle
           /\ CacheIdle
           /\ MergeIdle

CacheNext ==
    \/ \E t \in CacheTickers, f \in CacheFrequencies, d \in BOOLEAN :
          GetFsd(t, f, d)
    \/ \E t \in CacheTickers, f \in CacheFrequencies : CachStrucChg(t, f)
    \/ \E t \in CacheTickers, f \in DashboardFrequencies, k \in 0..2 :
          Dashboard(t, f, k)

CacheSpec == CacheInit /\ [][CacheNext]_vars

(***************************************************************************)
(* FinancialStatementData._merge_data and _drop_dup                        *)
(***************************************************************************)
\* self._colname_date
_colname_date == "formatted_date"

\* the items a statement may report, in the order the source lists them
Items == <<"cash", "netIncome", "totalAssets">>

\* the table _format_financial_data returns for a statement that reports
\* the given items: the date column first, then one column per item
Statement(from, reported) ==
    LET Reported(item) == item \in reported
        items == SelectSeq(Items, Reported)
    IN <<StatementColumn(_colname_date, from)>>
           \o [i \in DOMAIN items |-> StatementColumn(items[i], from)]

StatementInputs(from) ==
    {Statement(from, reported) :
        reported \in SUBSET {Items[i] : i \in DOMAIN Items}}

\* set(df.columns)
Names(df) == {df[i].name : i \in DOMAIN df}

\* df.drop(cols, axis=1): a new table, df itself is left as it is
drop(df, cols) ==
    LET Kept(c) == c.name \notin cols
    IN SelectSeq(df, Kept)

\* variant: the date column is dropped with the other shared columns
_drop_dup_all(df1, df2) ==
    IF Cardinality(Names(df1) \cap Names(df2)) > 1
    THEN drop(df2, Names(df1) \cap Names(df2))
    ELSE df2

_drop_dup(df1, df2) ==
    IF Cardinality(Names(df1) \cap Names(df2)) > 1
    THEN drop(df2, (Names(df1) \cap Names(df2)) \ {_colname_date})
    ELSE df2

\* a table, or the exception raised in place of it
Merged(exc, columns) == [none |-> FALSE, raised |-> exc, columns |-> columns]

\* a column of the left or right table in the merged one: a label both
\* tables carry, other than the key, gets pandas' suffix
Suffixed(c, others, on, suffix) ==
    IF c.name # on /\ c.name \in others
    THEN StatementColumn(c.name \o suffix, c.from)
    ELSE c

\* left.merge(right, on=on, how="outer"), as the columns of the result:
\* those of left, then those of right without the key
OuterMerge(left, right, on) ==
    LET NotKey(c) == c.name # on
        rest == SelectSeq(right, NotKey)
    IN IF on \notin Names(left) \/ on \notin Names(right)
       THEN Merged("KeyError", <<>>)
       ELSE Merged("None",
                   [i \in DOMAIN left |->
                       Suffixed(left[i], Names(right), on, "_x")]
                   \o [i \in DOMAIN rest |->
                          Suffixed(rest[i], Names(left), on, "_y")])

\* lines 275-277: the second merge, unless the first one raised
_merge_cash(first, cash) ==
    IF first.raised # "None" THEN first
    ELSE OuterMerge(first.columns, cash, _colname_date)

\* lines 270-277, given what lines 268 and 269 assigned
_merge_frames(balance, income, cash) ==
    Statements(balance, income, _drop_dup(income, cash),
               _merge_cash(OuterMerge(balance, income, _colname_date),
                           _drop_dup(income, cash)))

_merge_data(self) ==
    _merge_frames(self._balance,
                  _drop_dup(self._balance, self._income),
                  _drop_dup(self._balance, self._cash))

\* self._drop_dup(df1, df2), on two of the object's tables
DropDup(df1, df2) ==
    /\ m_op # "idle"
    /\ m_op' = "_drop_dup"
    /\ m_arg' = [df1 |-> df1, df2 |-> df2]
    /\ m_df1' = df1
    /\ m_ret' = _drop_dup(df1, df2)
    /\ UNCHANGED <<m_pulled, m_self>>
    /\ UNCHANGED <<sc_vars, data_vars, fm_vars, cache_vars>>

\* self._merge_data(), which the constructor calls once
MergeData ==
    /\ m_op # "idle"
    /\ m_self._df_merge.none
    /\ m_self' = _merge_data(m_self)
    /\ m_op' = "_merge_data"
    /\ m_arg' = [df1 |-> <<>>, df2 |-> <<>>]
    /\ m_df1' = <<>>
    /\ m_ret' = <<>>
    /\ UNCHANGED m_pulled
    /\ UNCHANGED <<sc_vars, data_vars, fm_vars, cache_vars>>

\* the tables of the object
Tables(self) == {self._balance, self._income, self._cash}

\* the object after _pull_data(): the three statements as pulled
MergeInit ==
    \E b \in StatementInputs("balance"), i \in StatementInputs("income"),
       c \in StatementInputs("cash") :
        /\ m_pulled = Statements(b, i, c, NoMerge)
        /\ m_self = Statements(b, i, c, NoMerge)
        /\ m_op = "_pull_data"
        /\ m_arg = [df1 |-> <<>>, df2 |-> <<>>]
        /\ m_df1 = <<>>
        /\ m_ret = <<>>
        /\ StructuralChangeIdle
        /\ DataIdle
        /\ FuzzyIdle
        /\ CacheIdle

MergeNext ==
    \/ \E df1 \in Tables(m_self), df2 \in Tables(m_self) : DropDup(df1, df2)
    \/ MergeData

MergeSpec == MergeInit /\ [][MergeNext]_vars

(***************************************************************************)
(* Vocabulary of the properties                                            *)
(***************************************************************************)
\* s is written YYYY-MM-DD: ten characters, digits around two dashes
StrictFormat(s) ==
    /\ Len(s) = 10
    /\ \A i \in {1, 2, 3, 4, 6, 7, 9, 10} : IsDigit(s[i])
    /\ s[5] = Dash
    /\ s[8] = Dash

\* the number written in s[i..j]
RECURSIVE Num(_, _, _)
Num(s, i, j) ==
    IF j < i THEN 0 ELSE (10 * Num(s, i, j - 1)) + DigitVal(s[j])

\* the calendar date a YYYY-MM-DD string names
DateOf(s) == Date(Num(s, 1, 4), Num(s, 6, 7), Num(s, 9, 10))

\* s is written YYYY-MM-DD and names a day of the calendar
WellFormed(s) ==
    /\ StrictFormat(s)
    /\ DateOf(s).y >= 1
    /\ DateOf(s).m \in 1..12
    /\ DateOf(s).d \in 1..DaysInMonth(DateOf(s).y, DateOf(s).m)

\* the boundary rule read on the calendar: min < d - 1 and max > d
DateEligible(s) ==
    /\ Ordinal(df_init.lo) < Ordinal(DateOf(s)) - 1
    /\ Ordinal(df_init.hi) > Ordinal(DateOf(s))

\* the boundary rule as line 818 evaluates it, on the strings
RuleHolds(dt) ==
    /\ Strptime(dt).raised = "None"
    /\ MinusOneDay(Strptime(dt).date).raised = "None"
    /\ StrLess(_df_index_min,
               Strftime(MinusOneDay(Strptime(dt).date).date, pad_year))
    /\ StrLess(dt, _df_index_max)

\* the change_date index of a table
ChangeDates(table) == [i \in 1..Len(table.rows) |-> table.rows[i].change_date]

\* the last analyze() ran _analyze_one_date on every entry and none raised
LoopReturned ==
    /\ op = "analyze"
    /\ Len(trace) = Len(possible_date_list)
    /\ \A i \in DOMAIN trace : trace[i].out.raised = "None"

\* the series 2020-01-01 .. 2020-12-31 of the worked example
Series2020 == Series(Date(2020, 1, 1), Date(2020, 12, 31))

\* "2020-01-01", "2020-06-14", "2020-06-15", "2020-12-31"
Str20200101 == <<50, 48, 50, 48, 45, 48, 49, 45, 48, 49>>
Str20200614 == <<50, 48, 50, 48, 45, 48, 54, 45, 49, 52>>
Str20200615 == <<50, 48, 50, 48, 45, 48, 54, 45, 49, 53>>
Str20201231 == <<50, 48, 50, 48, 45, 49, 50, 45, 51, 49>>

(***************************************************************************)
(* C1: _analyze_one_date(d) on a well-formed date d returns exactly one    *)
(* row tagged change_date = d when series_min_date < d - 1 and             *)
(* series_max_date > d, and returns None for every other d.                *)
(***************************************************************************)
C1_EligibilityRule ==
    \A i \in DOMAIN trace :
        LET c == trace[i]
        IN WellFormed(c.dt) =>
            /\ c.out.raised = "None"
            /\ IF DateEligible(c.dt)
               THEN /\ ~c.out.res.none
                    /\ Len(c.out.res.rows) = 1
                    /\ c.out.res.rows[1].change_date = c.dt
               ELSE c.out.res.none

(***************************************************************************)
(* C2: for an eligible date d, _analyze_one_date invokes the causal-impact *)
(* model exactly once, with pre-period [series_min_date, d - 1] and        *)
(* post-period [d, series_max_date], and stores the returned object under  *)
(* key d; both periods are non-empty, the post-period starts the day after *)
(* the pre-period ends, and together they span the series.  On the series  *)
(* 2020-01-01..2020-12-31, d = 2020-06-15 gets [2020-01-01, 2020-06-14]    *)
(* and [2020-06-15, 2020-12-31]; 2020-01-01 and 2020-12-31 get no window.  *)
(***************************************************************************)
C2_Windows ==
    \A i \in DOMAIN trace :
        LET c == trace[i]
            dt == c.dt
        IN /\ (WellFormed(dt) /\ DateEligible(dt)) =>
                /\ c.out.raised = "None"
                /\ Len(c.out.calls) = 1
                /\ LET ci == c.out.calls[1]
                       pre == ci.pre_period
                       post == ci.post_period
                   IN /\ ci.data = _df
                      /\ Len(pre) = 2 /\ Len(post) = 2
                      /\ \A e \in {pre[1], pre[2], post[1], post[2]} :
                            WellFormed(e)
                      /\ DateOf(pre[1]) = df_init.lo
                      /\ Ordinal(DateOf(pre[2])) = Ordinal(DateOf(dt)) - 1
                      /\ post[1] = dt
                      /\ DateOf(post[2]) = df_init.hi
                      /\ Ordinal(DateOf(pre[1])) <= Ordinal(DateOf(pre[2]))
                      /\ Ordinal(DateOf(post[1])) <= Ordinal(DateOf(post[2]))
                      /\ Ordinal(DateOf(post[1])) = Ordinal(DateOf(pre[2])) + 1
                      /\ dt \in DOMAIN c.out.ci_dict
                      /\ c.out.ci_dict[dt] = ci
                      /\ c.out.res.rows[1].average = ci
           /\ (df_init = Series2020 /\ dt = Str20200615) =>
                c.out.calls = <<CausalImpact(_df,
                                             <<Str20200101, Str20200614>>,
                                             <<Str20200615, Str20201231>>)>>
           /\ (df_init = Series2020 /\ dt \in {Str20200101, Str20201231}) =>
                (c.out.calls = <<>> /\ c.out.res.none)

\* analyze() has run _analyze_one_date("2020-06-15") on the 2020 series
C2_Witness ==
    \E i \in DOMAIN trace :
        /\ df_init = Series2020
        /\ trace[i].dt = Str20200615
        /\ Len(trace[i].out.calls) = 1

(***************************************************************************)
(* C3: a boundary-ineligible date (first day, day after the first day,     *)
(* last day, any day outside the series) is silently skipped: no error,    *)
(* no causal-impact invocation, no entry added to the result store, no     *)
(* row, and analyze() goes on with the next date of the list.              *)
(***************************************************************************)
C3_SilentSkip ==
    \A i \in DOMAIN trace :
        LET c == trace[i]
        IN (WellFormed(c.dt) /\ ~DateEligible(c.dt)) =>
            /\ c.out.raised = "None"
            /\ c.out.calls = <<>>
            /\ c.out.ci_dict = c.before
            /\ c.out.res.none
            /\ (i < Len(possible_date_list) => Len(trace) > i)

(***************************************************************************)
(* C4: after analyze(), summary() is a table with exactly one row per      *)
(* boundary-eligible entry of the candidate list, duplicates included.     *)
(***************************************************************************)
C4_RowCount ==
    LoopReturned =>
        /\ ~_df_summary.none
        /\ Len(_df_summary.rows) =
             Cardinality({i \in DOMAIN possible_date_list :
                              RuleHolds(possible_date_list[i])})

(***************************************************************************)
(* C5: the change_date index of the SummaryTable is the candidate list     *)
(* with its ineligible entries removed, in the order of the list.          *)
(***************************************************************************)
C5_Order ==
    ~_df_summary.none =>
        ChangeDates(_df_summary) = SelectSeq(possible_date_list, RuleHolds)

\* a table of two rows whose dates are not in calendar order
C5_Witness ==
    /\ op = "analyze"
    /\ raised = "None"
    /\ Len(_df_summary.rows) >= 2
    /\ StrLess(_df_summary.rows[2].change_date,
               _df_summary.rows[1].change_date)

(***************************************************************************)
(* C6: with an empty candidate list, or one without any eligible date,     *)
(* analyze() returns normally and summary() is then an empty table.        *)
(***************************************************************************)
C6_EmptySummary ==
    (/\ op = "analyze"
     /\ \A i \in DOMAIN possible_date_list :
            /\ WellFormed(possible_date_list[i])
            /\ ~DateEligible(possible_date_list[i])) =>
        /\ raised = "None"
        /\ ~_df_summary.none
        /\ _df_summary.rows = <<>>

(***************************************************************************)
(* C7: a second analyze() on the same analyser, with the series and the    *)
(* candidate list unchanged, leaves the SummaryTable exactly as the first  *)
(* one built it.                                                           *)
(***************************************************************************)
\* the series is the one the rows of table were computed on
SeriesUnchangedSince(table) ==
    \A i \in DOMAIN table.rows : table.rows[i].average.data = _df

C7_Idempotent ==
    (/\ op = "analyze"
     /\ raised = "None"
     /\ ~summary_before.none
     /\ SeriesUnchangedSince(summary_before)) =>
        _df_summary = summary_before

\* analyze() has completed on an analyser that already had a summary
C7_Witness ==
    /\ op = "analyze"
    /\ raised = "None"
    /\ ~summary_before.none
    /\ SeriesUnchangedSince(summary_before)
    /\ Len(_df_summary.rows) >= 2

(***************************************************************************)
(* C8: plot(d) for a d that is not a key of the result store fails with a  *)
(* key-not-found error, and that error differs from what plot() gives      *)
(* when analyze() has not been called at all.                              *)
(***************************************************************************)
C8_PlotUnknownDate ==
    (op = "plot" /\ arg \notin DOMAIN _ci_dict) =>
        IF analyze_called THEN raised = "KeyError"
        ELSE raised \notin {"None", "KeyError"}

(***************************************************************************)
(* C9: summary() before any analyze() has completed warns, returns None    *)
(* and does not raise; after a completed analyze() it returns the table    *)
(* analyze() built.                                                        *)
(***************************************************************************)
C9_Summary ==
    op = "summary" =>
        /\ raised = "None"
        /\ IF analyze_done
           THEN ~ret.none /\ ret = _df_summary /\ ~warned
           ELSE ret.none /\ warned

\* summary() called after an analyze() that raised: still only a warning
C9_Witness ==
    /\ op = "summary"
    /\ analyze_called
    /\ ~analyze_done
    /\ warned

(***************************************************************************)
(* C10: a candidate string that is not written YYYY-MM-DD makes the        *)
(* date-parsing step of _analyze_one_date raise; it is never skipped.      *)
(***************************************************************************)
C10_MalformedRaises ==
    \A i \in DOMAIN trace :
        ~StrictFormat(trace[i].dt) => trace[i].out.raised # "None"

(***************************************************************************)
(* C11: series_min_date and series_max_date are computed once, in the      *)
(* constructor, and keep that value: no operation changes them, and after  *)
(* the caller has changed the series the eligibility rule and the analysis *)
(* windows still use the bounds of the series as it was at construction.   *)
(***************************************************************************)
C11_BoundsFixed ==
    constructed =>
        /\ WellFormed(_df_index_min) /\ DateOf(_df_index_min) = df_init.lo
        /\ WellFormed(_df_index_max) /\ DateOf(_df_index_max) = df_init.hi
        /\ \A i \in DOMAIN trace :
              LET c == trace[i]
              IN /\ \A k \in DOMAIN c.out.calls :
                        /\ DateOf(c.out.calls[k].pre_period[1]) = df_init.lo
                        /\ DateOf(c.out.calls[k].post_period[2]) = df_init.hi
                 /\ (WellFormed(c.dt) /\ DateOf(c.dt).y > 1000) =>
                        (c.out.raised = "None"
                         /\ c.out.res.none = ~DateEligible(c.dt))

\* analyze() has run an eligible date after the caller changed the series
C11_Witness ==
    /\ _df # df_init
    /\ \E i \in DOMAIN trace : Len(trace[i].out.calls) = 1

(***************************************************************************)
(* C12 as claimed: once an impact object is stored under d, no later       *)
(* operation replaces, removes or changes the entry stored for d.          *)
(***************************************************************************)
C12_NeverReplaced ==
    \A d \in DOMAIN ci_dict_before :
        d \in DOMAIN _ci_dict /\ _ci_dict[d] = ci_dict_before[d]

(***************************************************************************)
(* C12 as amended: an entry is never removed, and plot() and summary()     *)
(* leave the store as it is; analyze() overwrites the entry of every       *)
(* eligible date it processes with a newly created impact object, which    *)
(* has the same periods and differs from the old one exactly when the      *)
(* series was changed in between.                                          *)
(***************************************************************************)
C12_StoreEntries ==
    /\ DOMAIN ci_dict_before \subseteq DOMAIN _ci_dict
    /\ op \in {"plot", "summary"} => _ci_dict = ci_dict_before
    /\ \A d \in DOMAIN ci_dict_before :
          LET old == ci_dict_before[d]
              new == _ci_dict[d]
          IN /\ new.pre_period = old.pre_period
             /\ new.post_period = old.post_period
             /\ (new # old) =>
                   /\ op = "analyze"
                   /\ \E i \in DOMAIN trace : trace[i].dt = d
                   /\ new.data = _df
                   /\ old.data # _df

\* a second analyze() has overwritten a stored entry with a different object
C12_Witness ==
    /\ op = "analyze"
    /\ \E d \in DOMAIN ci_dict_before : _ci_dict[d] # ci_dict_before[d]

(***************************************************************************)
(* C13 as claimed: the constructor rejects every input that is not a       *)
(* DataFrame with a TypeError, creating no analyser, and succeeds for      *)
(* every DataFrame, with an empty result store and a None summary.         *)
(***************************************************************************)
C13_Constructor ==
    op = "init" =>
        IF df_arg.type # "DataFrame"
        THEN raised = "TypeError" /\ ~constructed
        ELSE /\ raised = "None"
             /\ constructed
             /\ _ci_dict = EmptyDict
             /\ _df_summary.none

(***************************************************************************)
(* C13 as amended: a non-DataFrame is rejected with a TypeError; a         *)
(* DataFrame with a date index gives an analyser with an empty result      *)
(* store and a None summary; a DataFrame without a date index makes the    *)
(* constructor raise AttributeError, and no analyser is created.           *)
(***************************************************************************)
C13_ConstructorDated ==
    op = "init" =>
        IF df_arg.type # "DataFrame"
        THEN raised = "TypeError" /\ ~constructed
        ELSE IF df_arg.index = "DatetimeIndex"
        THEN /\ raised = "None"
             /\ constructed
             /\ _ci_dict = EmptyDict
             /\ _df_summary.none
        ELSE raised = "AttributeError" /\ ~constructed

\* a pandas Series with a date index was handed over and rejected
C13_Witness ==
    /\ op = "init"
    /\ df_arg.type = "Series"
    /\ raised = "TypeError"
    /\ ~constructed

(***************************************************************************)
(* C14: analyze(), plot() and summary() never modify the series or the     *)
(* candidate list the analyser was given.                                  *)
(***************************************************************************)
C14_InputsUntouched ==
    [][op' \in {"analyze", "plot", "summary"} =>
          (_df' = _df /\ possible_date_list' = possible_date_list)]_vars

\* summary() after a completed analyze() of a list of two dates
C14_Witness ==
    /\ op = "summary"
    /\ analyze_done
    /\ Len(possible_date_list) = 2
    /\ _df = df_init

(***************************************************************************)
(* Vocabulary of the properties of the data classes                        *)
(***************************************************************************)
\* the calendar date a date string denotes
Calendar(s) == Strptime(s).date

\* the later of two calendar dates
Later(a, b) == IF Ordinal(a) >= Ordinal(b) THEN a ELSE b

Kinds == [i \in DOMAIN queries |-> queries[i].kind]

(***************************************************************************)
(* C15: _validate_input_frequency returns 'quarterly' for None, returns    *)
(* 'annual' and 'quarterly' as they are, raises TypeError for any other    *)
(* input that is not a str and ValueError for any other str; so no         *)
(* FinancialStatementData exists whose frequency is not one of the two.    *)
(***************************************************************************)
C15_FrequencyValidated ==
    /\ dop = "_validate_input_frequency" =>
          IF darg.frequency.type = "NoneType"
          THEN draised = "None" /\ dret = Ret("str", "quarterly", <<>>)
          ELSE IF darg.frequency.type # "str"
          THEN draised = "TypeError"
          ELSE IF darg.frequency.value \in {"annual", "quarterly"}
          THEN draised = "None"
               /\ dret = Ret("str", darg.frequency.value, <<>>)
          ELSE draised = "ValueError"
    /\ fsd.exists =>
          fsd.frequency \in {Ret("str", "quarterly", <<>>),
                             Ret("str", "annual", <<>>)}

(***************************************************************************)
(* C16: CheckTicker runs exactly the checks its type asks for: 'statement' *)
(* only the statement check (has_stock stays False), 'stock' only the      *)
(* stock check (has_statement stays False), 'both' both; any other type    *)
(* raises ValueError with no check run and both flags False.               *)
(***************************************************************************)
C16_ChecksRequested ==
    (dop = "CheckTicker" /\ darg.ticker.type = "str") =>
        /\ IsWord(darg.type, "statement") =>
              /\ draised = "None"
              /\ Kinds = <<"get_financial_stmts">>
              /\ ct.has_statement = source.has_statement
              /\ ~ct.has_stock
        /\ IsWord(darg.type, "stock") =>
              /\ draised = "None"
              /\ Kinds = <<"get_historical_price_data">>
              /\ ct.has_stock = source.has_stock
              /\ ~ct.has_statement
        /\ IsWord(darg.type, "both") =>
              /\ draised = "None"
              /\ Kinds = <<"get_financial_stmts",
                           "get_historical_price_data">>
              /\ ct.has_statement = source.has_statement
              /\ ct.has_stock = source.has_stock
        /\ (~\E w \in {"statement", "stock", "both"} :
                 IsWord(darg.type, w)) =>
              /\ draised = "ValueError"
              /\ queries = <<>>
              /\ ~ct.exists
              /\ ~ct.has_statement
              /\ ~ct.has_stock

\* a 'statement' validator of a ticker that has both kinds of data
C16_Witness ==
    /\ dop = "CheckTicker"
    /\ IsWord(darg.type, "statement")
    /\ source.has_stock
    /\ ct.exists
    /\ ct.has_statement
    /\ ~ct.has_stock

(***************************************************************************)
(* C17: get_first_trade_date returns the first trade date of the ticker if *)
(* it has stock data and None if not, whatever the type at construction;   *)
(* the stock check runs on the first call if it has not run before, and    *)
(* once the price data is there no call asks the data source again.        *)
(***************************************************************************)
C17_FirstTradeDate ==
    dop = "get_first_trade_date" =>
        /\ draised = "None"
        /\ IF source.has_stock
           THEN dret = Ret("str", "", source.first_trade)
           ELSE dret = RetNone
        /\ IF ct_before._today_prices.none
           THEN Kinds = <<"get_historical_price_data">>
           ELSE queries = <<>>
        /\ ~ct._today_prices.none
        /\ ct.has_stock = source.has_stock

\* a second call on a ticker without stock data: nothing is fetched again
C17_Witness ==
    /\ dop = "get_first_trade_date"
    /\ ~ct_before._today_prices.none
    /\ ct_before.first_trade_date.none
    /\ ~ct_before.has_statement
    /\ dret = RetNone
    /\ queries = <<>>

(***************************************************************************)
(* C18: in a constructed StockData the start date is the later of today    *)
(* minus three years and the first trade date when none is given, the      *)
(* later of the given date and the first trade date otherwise; the end     *)
(* date is today when none is given; the start date is never earlier than  *)
(* the first trade date.                                                   *)
(***************************************************************************)
C18_DateDefaults ==
    (dop = "StockData" /\ sd.exists) =>
        LET first == Calendar(sd.first_trade_date.value)
            start == Calendar(sd.start_date)
        IN /\ darg.start_date.type = "NoneType" =>
                 start = Later(ThreeYearsAgo(today), first)
           /\ darg.start_date.type = "str" =>
                 start = Later(Calendar(darg.start_date.value), first)
           /\ darg.end_date.type = "NoneType" =>
                 Calendar(sd.end_date) = today
           /\ Ordinal(start) >= Ordinal(first)

(***************************************************************************)
(* C19: the StockData constructor raises ValueError, before it requests    *)
(* the price history, whenever the end date is earlier than the effective  *)
(* start date; a constructed StockData has start_date <= end_date.         *)
(***************************************************************************)
C19_DateLogic ==
    (dop = "StockData" /\ sd.start_date # <<>>) =>
        LET start == Calendar(sd.start_date)
            end == Calendar(sd.end_date)
        IN /\ Ordinal(end) < Ordinal(start) =>
                 /\ draised = "ValueError"
                 /\ ~sd.exists
                 /\ Len(queries) = 1
           /\ sd.exists => Ordinal(start) <= Ordinal(end)

(***************************************************************************)
(* C20: FuzzyMatch(df, match_by_col) sets list_choices to the values of    *)
(* column match_by_col of df, in row order and with duplicates kept, for   *)
(* every column that exists in df.                                         *)
(***************************************************************************)
C20_ListChoices ==
    /\ (fm_arg.df.type = "DataFrame"
        /\ fm_arg.match_by_col.type = "str"
        /\ fm_arg.match_by_col.value \in fm_arg.df.columns) =>
          (fm.exists /\ fm_raised = "None")
    /\ fm.exists =>
          /\ fm.match_by_col \in fm_arg.df.columns
          /\ Len(fm.list_choices) = Len(fm_arg.df.rows)
          /\ \A i \in DOMAIN fm_arg.df.rows :
                fm.list_choices[i] = fm_arg.df.rows[i][fm.match_by_col]

\* two companies listed under one ticker: the ticker is listed twice
C20_Witness ==
    /\ fm.exists
    /\ fm.match_by_col = "Ticker"
    /\ Len(fm.list_choices) = 2
    /\ fm.list_choices[1] = fm.list_choices[2]
    /\ fm.df_company.rows[1] # fm.df_company.rows[2]

(***************************************************************************)
(* C21: FuzzyMatch(df, match_by_col) raises TypeError when df is not a     *)
(* DataFrame or match_by_col is not a str, and otherwise a ValueError      *)
(* whose message contains 'does not exist' when match_by_col is not a      *)
(* column of df; in both cases no matcher is created.                      *)
(***************************************************************************)
C21_InitRaises ==
    fm_op = "init" =>
        IF fm_arg.df.type # "DataFrame" \/ fm_arg.match_by_col.type # "str"
        THEN fm_raised = "TypeError" /\ ~fm.exists
        ELSE IF fm_arg.match_by_col.value \notin fm_arg.df.columns
        THEN /\ fm_raised = "ValueError"
             /\ \E i \in DOMAIN fm_message :
                   fm_message[i] = " does not exist "
             /\ ~fm.exists
        ELSE fm_raised = "None"

\* a table of two companies asked for the column 'foobar'
C21_Witness ==
    /\ fm_op = "init"
    /\ fm_raised = "ValueError"
    /\ fm_arg.match_by_col = Obj("str", "foobar")
    /\ Len(fm_arg.df.rows) = 2

\* no value occurs twice in the sequence
Unique(seq) ==
    \A i, j \in DOMAIN seq : seq[i] = seq[j] => i = j

(***************************************************************************)
(* C22: match(text, n) returns a table whose columns are match_by_col,     *)
(* 'Matching Score' and then the other columns of the company table; when  *)
(* the names in match_by_col are unique it has one row per choice the      *)
(* extractor selected, at most n, best score first, each with the other    *)
(* columns of the company row of that name.                                *)
(***************************************************************************)
C22_MatchTable ==
    fm_op = "match" =>
        LET col == fm.match_by_col
            res == fm_call.res
            n == fm_call.num_result
            choices == fm.list_choices
            rows == fm_ret.rows
            NotKey(c) == c # col
        IN /\ fm_raised = "None"
           /\ fm_ret.columns
                 = <<col, "Matching Score">> \o SelectSeq(ColumnOrder, NotKey)
           /\ Unique(choices) =>
                 /\ Len(res) = IF n < Len(choices) THEN n ELSE Len(choices)
                 /\ Len(rows) = Len(res)
                 /\ \A k \in DOMAIN rows :
                       /\ rows[k][col] = res[k][1]
                       /\ rows[k]["Matching Score"] = res[k][2]
                       /\ res[k][2] = fm_call.score[res[k][1]]
                       /\ \E i \in DOMAIN fm.df_company.rows :
                             \A c \in Labels :
                                rows[k][c] = fm.df_company.rows[i][c]
                 /\ \A k, l \in DOMAIN res : k < l => res[k][2] >= res[l][2]
                 /\ \A i \in DOMAIN choices :
                       (\A k \in DOMAIN res : res[k][1] # choices[i]) =>
                          \A k \in DOMAIN res :
                             fm_call.score[choices[i]] <= res[k][2]

\* two companies, the second scores better, both are asked for
C22_Witness ==
    /\ fm_op = "match"
    /\ fm.match_by_col = "Company Name"
    /\ Len(fm.list_choices) = 2
    /\ Unique(fm.list_choices)
    /\ Len(fm_ret.rows) = 2
    /\ fm_ret.rows[1]["Company Name"] = fm.list_choices[2]
    /\ fm_ret.rows[1]["Matching Score"] > fm_ret.rows[2]["Matching Score"]

(***************************************************************************)
(* C23: the summary table is None in every state before the first          *)
(* analyze() that returns normally; only analyze() assigns it; summary()   *)
(* and plot() leave the summary, the result store, the recorded bounds and *)
(* the candidate list as they were.                                        *)
(***************************************************************************)
C23_SummaryLifecycle ==
    /\ [](~analyze_done => _df_summary.none)
    /\ [][/\ _df_summary' # _df_summary => op' = "analyze"
          /\ op' \in {"plot", "summary"} =>
                UNCHANGED <<_df_summary, _ci_dict, _df_index_min,
                            _df_index_max, possible_date_list>>]_vars

\* summary() hands out the table of a completed analysis and the table stays
C23_Witness ==
    /\ op = "summary"
    /\ analyze_done
    /\ ~ret.none
    /\ ret = _df_summary
    /\ DOMAIN _ci_dict # {}

\* the set of change dates indexing the rows of a table
ChangeDateSet(table) ==
    {table.rows[i].change_date : i \in DOMAIN table.rows}

(***************************************************************************)
(* C24: after every analyze() that returns normally the key set of the     *)
(* result store equals the set of distinct change dates of the summary     *)
(* table, and from then on plot(d) succeeds for exactly the dates d that   *)
(* index a row of summary().                                               *)
(***************************************************************************)
C24_PlotMatchesSummary ==
    analyze_done =>
        /\ ~_df_summary.none
        /\ DOMAIN _ci_dict = ChangeDateSet(_df_summary)
        /\ op = "plot" =>
              (raised = "None" <=> arg \in ChangeDateSet(_df_summary))

\* after an analysis that skipped a candidate, plot succeeds on a row's date
C24_Witness ==
    /\ analyze_done
    /\ op = "plot"
    /\ raised = "None"
    /\ arg \in ChangeDateSet(_df_summary)
    /\ Len(possible_date_list) > Cardinality(ChangeDateSet(_df_summary))
    /\ \E i \in DOMAIN possible_date_list :
          possible_date_list[i] \notin DOMAIN _ci_dict

\* the dates of the calls of the last analyze() that returned a row
RowDates ==
    {trace[i].dt : i \in {j \in DOMAIN trace : ~trace[j].out.res.none}}

(***************************************************************************)
(* C25: when analyze() raises (a malformed date string, or nothing to      *)
(* concatenate), the summary table keeps the value it had when the call    *)
(* was entered, and the result store keeps what it held plus the entries   *)
(* added for the eligible dates processed before the failure.              *)
(***************************************************************************)
C25_AbnormalAnalyze ==
    (op = "analyze" /\ raised # "None") =>
        /\ _df_summary = summary_before
        /\ DOMAIN _ci_dict = (DOMAIN ci_dict_before) \cup RowDates
        /\ \A k \in (DOMAIN _ci_dict) \ RowDates :
              _ci_dict[k] = ci_dict_before[k]
        /\ \A k \in RowDates :
              \E i \in DOMAIN trace :
                 /\ trace[i].dt = k
                 /\ trace[i].out.calls = <<_ci_dict[k]>>

\* an eligible date was processed and stored, then a malformed one raised
C25_Witness ==
    /\ op = "analyze"
    /\ raised = "ValueError"
    /\ Len(trace) = 2
    /\ ~trace[1].out.res.none
    /\ trace[2].out.raised = "ValueError"
    /\ trace[1].dt \notin DOMAIN ci_dict_before
    /\ trace[1].dt \in DOMAIN _ci_dict

\* dt_m1 of line 814-817, for a date string strptime accepts
DayBefore(dt) == Strftime(MinusOneDay(Strptime(dt).date).date, pad_year)

(***************************************************************************)
(* C26: for every candidate written as zero-padded YYYY-MM-DD with a       *)
(* four-digit year, d - 1 is the preceding calendar day, written the same  *)
(* way, and the two string comparisons of the eligibility test give the    *)
(* verdicts of the calendar comparisons.                                   *)
(***************************************************************************)
C26_StringOrderIsCalendarOrder ==
    \A i \in DOMAIN trace :
        LET dt == trace[i].dt
        IN WellFormed(dt) =>
            /\ MinusOneDay(Strptime(dt).date).raised = "None"
            /\ WellFormed(DayBefore(dt))
            /\ Ordinal(DateOf(DayBefore(dt))) = Ordinal(DateOf(dt)) - 1
            /\ StrLess(_df_index_min, DayBefore(dt))
                  <=> Ordinal(df_init.lo) < Ordinal(DateOf(dt)) - 1
            /\ StrLess(dt, _df_index_max)
                  <=> Ordinal(df_init.hi) > Ordinal(DateOf(dt))

\* the dashboard found the cached summary of the ticker and frequency
SummaryFound ==
    PicklePath(SummaryName(carg.ticker, fd_frequency_dict(carg.frequency)))
        \in DOMAIN cached

(***************************************************************************)
(* C27: whenever the dashboard finds the cached structural-change summary  *)
(* of (ticker, frequency), loading the figure of the date picked in its    *)
(* select box succeeds: cach_struc_chg stored a figure under the key the   *)
(* dashboard reads.                                                        *)
(***************************************************************************)
C27_FigureFound ==
    (cop = "dashboard" /\ SummaryFound) =>
        /\ craised = "None"
        /\ cret.kind = "png"

\* the path under which get_fsd keeps the object of its last call
FsdPath == PicklePath(FsdName(carg.ticker, carg.frequency))

\* the last get_fsd found its entry and was not told to replace it
CacheHit == FsdPath \in DOMAIN cached_before /\ ~carg.delete_if_exists

(***************************************************************************)
(* C28: get_fsd(ticker, frequency, delete_if_exists) returns the cached    *)
(* object without fetching when the entry fsd_{ticker}_{frequency} exists  *)
(* and delete_if_exists is false; otherwise it constructs one              *)
(* FinancialStatementData(ticker, mapped frequency) and writes it under    *)
(* that key. After a call that returned the entry exists, so the next call *)
(* with delete_if_exists false does not fetch; no other key changes.       *)
(***************************************************************************)
C28_GetFsd ==
    /\ [](cop = "get_fsd" =>
            /\ IF CacheHit
               THEN /\ craised = "None"
                    /\ cret = cached_before[FsdPath]
                    /\ fetched = <<>>
                    /\ cached = cached_before
               ELSE /\ fetched = <<Fetch(carg.ticker,
                                         frequency_dict(carg.frequency))>>
                    /\ craised = "None" =>
                          /\ cret.kind = "FinancialStatementData"
                          /\ cret.obj.exists
                          /\ FsdPath \in DOMAIN cached
                          /\ cached[FsdPath] = cret
            /\ craised = "None" => FsdPath \in DOMAIN cached
            /\ (DOMAIN cached) \ {FsdPath} = (DOMAIN cached_before) \ {FsdPath}
            /\ \A p \in (DOMAIN cached) \ {FsdPath} :
                  cached[p] = cached_before[p])
    /\ [][(/\ cop = "get_fsd"
           /\ craised = "None"
           /\ cop' = "get_fsd"
           /\ carg'.ticker = carg.ticker
           /\ carg'.frequency = carg.frequency
           /\ ~carg'.delete_if_exists)
          => (fetched' = <<>> /\ cret' = cret)]_vars

\* a second entry is asked for again and served from the folder, which
\* also holds a summary and a picture
C28_Witness ==
    /\ cop = "get_fsd"
    /\ CacheHit
    /\ fetched = <<>>
    /\ cret = cached[FsdPath]
    /\ Cardinality(DOMAIN cached) >= 4
    /\ \E p \in DOMAIN cached : cached[p].kind = "png"

\* the first of balance, income and cash, as pulled, that has the column
FirstWith(name) ==
    IF name \in Names(m_pulled._balance) THEN "balance"
    ELSE IF name \in Names(m_pulled._income) THEN "income"
    ELSE "cash"

(***************************************************************************)
(* C29: _drop_dup(df1, df2) leaves df1 as it was and returns df2 without   *)
(* the columns it shares with df1, the date column excepted; so the merged *)
(* table has no column name twice, its column set is the union of the      *)
(* three statements' column sets, and a shared column holds the values of  *)
(* the first of balance, income and cash that has it.                      *)
(***************************************************************************)
C29_DropDup ==
    /\ m_op = "_drop_dup" =>
          LET Kept(c) == c.name \notin Names(m_arg.df1)
                            \/ c.name = _colname_date
          IN /\ m_df1 = m_arg.df1
             /\ m_ret = SelectSeq(m_arg.df2, Kept)
    /\ m_op = "_merge_data" =>
          LET cols == m_self._df_merge.columns
          IN /\ m_self._df_merge.raised = "None"
             /\ \A i, j \in DOMAIN cols : cols[i].name = cols[j].name => i = j
             /\ Names(cols) = Names(m_pulled._balance)
                                 \cup Names(m_pulled._income)
                                 \cup Names(m_pulled._cash)
             /\ \A i \in DOMAIN cols : cols[i].from = FirstWith(cols[i].name)

\* one item is reported by all three statements, another by the income and
\* the cash statement only, and the merged table has each of them once
C29_Witness ==
    /\ m_op = "_merge_data"
    /\ "cash" \in Names(m_pulled._balance) \cap Names(m_pulled._income)
                     \cap Names(m_pulled._cash)
    /\ "netIncome" \in (Names(m_pulled._income) \cap Names(m_pulled._cash))
                          \ Names(m_pulled._balance)
    /\ Len(m_self._df_merge.columns) = 3
    /\ Len(m_self._cash) = 1

====
